---- MODULE Spec2Model ----
(***************************************************************************)
(* volmetd: one scrape of VolumeCollector.Collect, with the discovery pass *)
(* of MultiDiscoverer.Discover (pkg/discovery/types.go) taken step by      *)
(* step, and mergeVolumeInfo as a pure operator.                           *)
(***************************************************************************)
EXTENDS Integers, Sequences, FiniteSets, Bags, TLC

VARIABLES
    discoverers,  \* MultiDiscoverer.discoverers: the configured producers, by Name()
    pc,           \* position of the scrape inside Collect / Discover
    i,            \* index of the producer the loop of Discover is at
    j,            \* number of records of the current producer's slice ranged over
    v,            \* the loop variable: the record ranged over last
    step,         \* what the loop body did with v: "skip", "insert" or "merge"
    seen,         \* Discover's map: device name -> canonical entry
    result,       \* the slice Discover returns
    err,          \* the error Discover returns
    ch,           \* the metrics sent on Collect's channel, in order
    consulted,    \* history: the producers (indexes) whose Available() was called
    failed,       \* history: the producers (indexes) whose Discover() returned an error
    working,      \* history: the producers (indexes) whose Discover() returned records
    yieldedNames, \* history: the DeviceName of every record ranged over
    yieldedKeys,  \* history: the merge key (MergeKey) of every record ranged over
    first,        \* history: device name -> the first record ranged over with it,
                  \*          and the index of the producer it came from
    calls,        \* history: the calls made on the producers and the end of the
                  \*          range over a producer's slice, in order
    dst,          \* mergeVolumeInfo taken alone: the canonical entry before
    src,          \* mergeVolumeInfo taken alone: the record merged in
    merged,       \* mergeVolumeInfo taken alone: the canonical entry after
    mpc           \* mergeVolumeInfo taken alone: "call" or "done"

discoverVars == <<discoverers, pc, i, j, v, step, seen, result, err, ch, consulted, failed, working,
                  yieldedNames, yieldedKeys, first, calls>>
mergeVars == <<dst, src, merged, mpc>>

VARIABLES
    mounts,       \* FindMountByPath: the mount table passed in
    path,         \* FindMountByPath: the path looked up
    mnext,        \* FindMountByPath: index of the entry the loop is at
    best,         \* FindMountByPath: index of the entry best points to, 0 for nil
    bestLen,      \* FindMountByPath: bestLen
    fpc           \* FindMountByPath: "loop" or "returned"

findVars == <<mounts, path, mnext, best, bestLen, fpc>>

FindIdle ==
    /\ mounts = <<>>
    /\ path = <<>>
    /\ mnext = 1
    /\ best = 0
    /\ bestLen = 0
    /\ fpc = "idle"

VARIABLES
    lines,        \* diskstats.Parse: the lines of the stats table
    lnext,        \* diskstats.Parse: index of the line the scanner is at
    ByName,       \* diskstats.Parse: result.ByName
    ByDeviceID,   \* diskstats.Parse: result.ByDeviceID
    serr,         \* diskstats.Parse: the error returned
    spc           \* diskstats.Parse: "open", "scan", "returned"

statsVars == <<lines, lnext, ByName, ByDeviceID, serr, spc>>

StatsIdle ==
    /\ lines = <<>>
    /\ lnext = 1
    /\ ByName = <<>>
    /\ ByDeviceID = <<>>
    /\ serr = "unset"
    /\ spc = "idle"

VARIABLES
    fsys,         \* ResolveDevice: the links and files under /dev
    devicePath,   \* ResolveDevice: its argument
    epath,        \* evalSymlinks: path
    hops,         \* evalSymlinks: i, the number of links followed
    eerr,         \* evalSymlinks: the error returned
    resolvedPath, \* ResolveDevice: the first result
    deviceName,   \* ResolveDevice: the second result
    rpc           \* ResolveDevice: "eval", "evaluated" or "returned"

resolveVars == <<fsys, devicePath, epath, hops, eerr, resolvedPath, deviceName, rpc>>

ResolveIdle ==
    /\ fsys = <<>>
    /\ devicePath = <<>>
    /\ epath = <<>>
    /\ hops = 0
    /\ eerr = "unset"
    /\ resolvedPath = <<>>
    /\ deviceName = <<>>
    /\ rpc = "idle"

VARIABLES
    stMajor,      \* GetDeviceID: the major number of the device of the mount point
    stMinor,      \* GetDeviceID: the minor number of the device of the mount point
    statDev,      \* GetDeviceID: stat.Dev, 64 bits, the lowest first
    gid,          \* GetDeviceID: the string returned
    gerr,         \* GetDeviceID: the error returned
    gpc           \* GetDeviceID: "stat" or "returned"

deviceIDVars == <<stMajor, stMinor, statDev, gid, gerr, gpc>>

DeviceIDIdle ==
    /\ stMajor = 0
    /\ stMinor = 0
    /\ statDev = <<>>
    /\ gid = <<>>
    /\ gerr = "unset"
    /\ gpc = "idle"

VARIABLES
    volumes,      \* Collect: the records Discover returned, as they are now
    sent,         \* Collect: the metrics the sub-collectors have sent on ch, a bag
    cpc,          \* Collect: "resolve", "go", "wait" or "returned"
    cnext,        \* Collect: index of the sub-collector the go loop is at
    wg,           \* Collect: the counter of its WaitGroup
    bpc,          \* resolveDeviceNames: "parse", "range", "failed" or "done"
    bnext,        \* resolveDeviceNames: index of the record its loop is at
    upc,          \* execute and Update of each sub-collector: its position
    unext,        \* Update of each sub-collector: index of the record its loop is at
    uwg,          \* Update of each sub-collector: the counter of its WaitGroup
    uerr,         \* execute of each sub-collector: the error Update returned
    tpc           \* the task of each sub-collector for each record: its
                  \* position, the labels it has read, the metrics it has sent

collectVars == <<volumes, sent, cpc, cnext, wg, bpc, bnext, upc, unext, uwg, uerr, tpc>>

CollectIdle ==
    /\ volumes = <<>>
    /\ sent = EmptyBag
    /\ cpc = "idle"
    /\ cnext = 1
    /\ wg = 0
    /\ bpc = "idle"
    /\ bnext = 1
    /\ upc = <<>>
    /\ unext = <<>>
    /\ uwg = <<>>
    /\ uerr = <<>>
    /\ tpc = <<>>

VARIABLES
    kubelet,      \* CSIDiscoverer.Discover: the mount table and the pods directory
    kpc,          \* CSIDiscoverer.Discover: "parse", "readdir", "pods", "vols", "returned"
    knext,        \* CSIDiscoverer.Discover: index of the pod directory its loop is at
    vnext,        \* discoverCSIVolumes: index of the volume directory its loop is at
    inner,        \* discoverCSIVolumes: volumes
    found,        \* CSIDiscoverer.Discover: volumes
    kerr          \* CSIDiscoverer.Discover: the error returned

csiVars == <<kubelet, kpc, knext, vnext, inner, found, kerr>>

CSIIdle ==
    /\ kubelet = <<>>
    /\ kpc = "idle"
    /\ knext = 1
    /\ vnext = 1
    /\ inner = <<>>
    /\ found = <<>>
    /\ kerr = "unset"

\* The variables of the parts of the program that the discovery pass and the
\* merge taken alone leave untouched, and their values while those parts rest.
restVars == <<findVars, statsVars, resolveVars, deviceIDVars, collectVars, csiVars>>

vars == <<discoverVars, mergeVars, restVars>>

RestIdle == FindIdle /\ StatsIdle /\ ResolveIdle /\ DeviceIDIdle /\ CollectIdle /\ CSIIdle

\* What the steps of one part leave unchanged: the variables of the others.
besidesFind == <<discoverVars, mergeVars, statsVars, resolveVars, deviceIDVars, collectVars, csiVars>>
besidesStats == <<discoverVars, mergeVars, findVars, resolveVars, deviceIDVars, collectVars, csiVars>>
besidesResolve == <<discoverVars, mergeVars, findVars, statsVars, deviceIDVars, collectVars, csiVars>>
besidesDeviceID == <<discoverVars, mergeVars, findVars, statsVars, resolveVars, collectVars, csiVars>>
besidesCollect == <<discoverVars, mergeVars, findVars, statsVars, resolveVars, deviceIDVars, csiVars>>
besidesCSI == <<discoverVars, mergeVars, findVars, statsVars, resolveVars, deviceIDVars, collectVars>>

\* ------------------------------------------------------------------ bounds

MaxDiscoverers == 2
MaxVolumes == 2

\* ------------------------------------------------------------- VolumeInfo

\* The fields of VolumeInfo. DeviceID is the field K8sAPIDiscoverer.Discover
\* sets and resolveDeviceNames reads.
Fields ==
    {"PVCName", "PVCNamespace", "PVName", "PodName", "PodNamespace", "PodUID",
     "StorageClass", "CSIDriver", "VolumeHandle", "DevicePath", "DeviceName",
     "DeviceID", "CSIDevicePath", "MountPath", "ContainerMountPath"}

VolumeInfo ==
    [PVCName |-> "", PVCNamespace |-> "", PVName |-> "", PodName |-> "",
     PodNamespace |-> "", PodUID |-> "", StorageClass |-> "", CSIDriver |-> "",
     VolumeHandle |-> "", DevicePath |-> "", DeviceName |-> "", DeviceID |-> "",
     CSIDevicePath |-> "", MountPath |-> "", ContainerMountPath |-> ""]

\* extractPVCName: both branches return the PV name.
extractPVCName(pvName) == pvName

\* --------------------------------------------------------- mergeVolumeInfo

\* mergeVolumeInfo with the test of line 95 inverted: a PVC namespace that is
\* set is overwritten.
mergeVolumeInfoOverwrites(d, s) ==
    [f \in Fields |->
        CASE f = "PVCName" ->
                IF (d.PVCName = "" \/ d.PVCName = d.PVName)
                   /\ (s.PVCName # "" /\ s.PVCName # s.PVName)
                THEN s.PVCName ELSE d.PVCName
          [] f \in {"DeviceName", "DeviceID"} -> d[f]
          [] f = "PVCNamespace" -> IF d[f] # "" THEN s[f] ELSE d[f]
          [] OTHER -> IF d[f] = "" THEN s[f] ELSE d[f]]

\* mergeVolumeInfo with the PVC name filled like any other field: only when
\* it is empty on dst.
mergeVolumeInfoNoPlaceholder(d, s) ==
    [f \in Fields |->
        CASE f \in {"DeviceName", "DeviceID"} -> d[f]
          [] OTHER -> IF d[f] = "" THEN s[f] ELSE d[f]]

\* mergeVolumeInfo(dst, src): the value of *dst after the call. The PVC name
\* is decided first, against dst's PV name as it is before line 98 fills it.
\* DeviceName and DeviceID are not assigned.
mergeVolumeInfo(d, s) ==
    [f \in Fields |->
        CASE f = "PVCName" ->
                IF (d.PVCName = "" \/ d.PVCName = d.PVName)
                   /\ (s.PVCName # "" /\ s.PVCName # s.PVName)
                THEN s.PVCName ELSE d.PVCName
          [] f \in {"DeviceName", "DeviceID"} -> d[f]
          [] OTHER -> IF d[f] = "" THEN s[f] ELSE d[f]]

\* ------------------------------------------------- what the producers yield

\* Mount devices as the mount table gives them, with what ResolveDevice makes
\* of them: the resolved path and its last segment. A device spec that ends
\* in "/" has an empty last segment.
MountDevices ==
    {[Device |-> "/dev/disk/by-id/vol1", Resolved |-> "/dev/sda", Name |-> "sda"],
     [Device |-> "/dev/sdb", Resolved |-> "/dev/sdb", Name |-> "sdb"],
     [Device |-> "nfs:/export/", Resolved |-> "nfs:/export/", Name |-> ""]}

\* readVolData: the keys of vol_data.json that are strings, "" for the others.
VolDatas ==
    {[VolumeName |-> "pv1", DriverName |-> "drv", VolumeHandle |-> "h1",
      PodName |-> "pod1", PodNamespace |-> "ns1"],
     [VolumeName |-> "", DriverName |-> "", VolumeHandle |-> "",
      PodName |-> "", PodNamespace |-> ""]}

\* The record discoverCSIVolumes builds for one volume directory.
CSIVolumeInfo(volData, podUID, mount, mountPath) ==
    [VolumeInfo EXCEPT
        !.PVName = volData.VolumeName,
        !.PVCName = extractPVCName(volData.VolumeName),
        !.PVCNamespace = volData.PodNamespace,
        !.PodName = volData.PodName,
        !.PodNamespace = volData.PodNamespace,
        !.PodUID = podUID,
        !.CSIDriver = volData.DriverName,
        !.VolumeHandle = volData.VolumeHandle,
        !.DevicePath = mount.Device,
        !.DeviceName = mount.Name,
        !.MountPath = mountPath]

\* GetDeviceID's results: "" when the stat fails (the error is dropped).
DeviceIDs == {"", "8:1"}

\* The claims of the pods on the node: PVC name, namespace and bound PV.
Claims ==
    {[ClaimName |-> "data", Namespace |-> "ns1", VolumeName |-> "pv1"],
     [ClaimName |-> "logs", Namespace |-> "ns2", VolumeName |-> "pv2"]}

\* pvToPVC[pvName]: what the PV list says of the claim's PV.
PvcMeta == [storageClass |-> "sc1", csiDriver |-> "drv", volumeHandle |-> "h1"]

\* The record K8sAPIDiscoverer.Discover builds for one volume of one pod whose
\* PV is in pvToPVC.
K8sVolumeInfo(claim, podName, podUID, mount, deviceID, mountPath, containerMountPath, pvcMeta) ==
    [VolumeInfo EXCEPT
        !.PVCName = claim.ClaimName,
        !.PVCNamespace = claim.Namespace,
        !.PVName = claim.VolumeName,
        !.PodName = podName,
        !.PodNamespace = claim.Namespace,
        !.PodUID = podUID,
        !.CSIDevicePath = mount.Device,
        !.DevicePath = mount.Resolved,
        !.DeviceName = mount.Name,
        !.DeviceID = deviceID,
        !.MountPath = mountPath,
        !.ContainerMountPath = containerMountPath,
        !.StorageClass = pvcMeta.storageClass,
        !.CSIDriver = pvcMeta.csiDriver,
        !.VolumeHandle = pvcMeta.volumeHandle]

DiscoveryCSI == "csi"
DiscoveryK8sAPI == "k8sapi"

\* The records a producer's Discover can return, by the producer's Name().
Yields(name) ==
    IF name = DiscoveryCSI
    THEN {CSIVolumeInfo(vd, "uid1", m, "/kubelet/uid1/mount") :
            vd \in VolDatas, m \in MountDevices}
    ELSE {K8sVolumeInfo(c, "pod1", "uid1", m, id, "/kubelet/uid1/mount", "/data", PvcMeta) :
            c \in Claims, m \in MountDevices, id \in DeviceIDs}

\* NewMultiDiscoverer's argument as main builds it from cfg.DiscoveryMethods:
\* one producer per method named, in the order named, at least one.
Configurations ==
    UNION {[1..len -> {DiscoveryCSI, DiscoveryK8sAPI}] : len \in 1..MaxDiscoverers}

\* ------------------------------------------------- MultiDiscoverer.Discover
\* types.go holds two definitions of Discover. The model follows the first
\* (lines 53-86), which keys seen by DeviceName and calls mergeVolumeInfo; the
\* second (lines 184-215) keys by DevicePath and keeps the first record whole.

\* The key the data model (spec section 3) gives a record: its device-id if
\* present, else its canonical device name ("" when it has neither). The code
\* does not compute it; the history variable yieldedKeys and the claims do.
MergeKey(r) == IF r.DeviceID # "" THEN r.DeviceID ELSE r.DeviceName

EmptyMap == [k \in {} |-> k]

\* seen[key] = value
MapSet(m, key, value) ==
    [k \in DOMAIN m \cup {key} |-> IF k = key THEN value ELSE m[k]]

\* The orders in which ranging over a map can visit its values.
MapOrders(m) ==
    {[p \in 1..Cardinality(DOMAIN m) |-> m[o[p]]] :
        o \in {q \in [1..Cardinality(DOMAIN m) -> DOMAIN m] :
                 \A a, b \in 1..Cardinality(DOMAIN m) : a # b => q[a] # q[b]}}

\* An entry of calls: the producer (its index), the method called or "range"
\* for the end of the loop over its slice, and what the method returned.
Call(d, op, ret) == [d |-> d, op |-> op, ret |-> ret]

Init ==
    /\ discoverers \in Configurations
    /\ pc = "loop"
    /\ i = 1
    /\ j = 0
    /\ v = VolumeInfo
    /\ step = "none"
    /\ seen = EmptyMap
    /\ result = <<>>
    /\ err = "unset"
    /\ ch = <<>>
    /\ consulted = {}
    /\ failed = {}
    /\ working = {}
    /\ yieldedNames = {}
    /\ yieldedKeys = {}
    /\ first = EmptyMap
    /\ calls = <<>>
    /\ dst = VolumeInfo
    /\ src = VolumeInfo
    /\ merged = VolumeInfo
    /\ mpc = "idle"
    /\ RestIdle

\* d.Available(ctx) is false, and d.Discover(ctx) is called all the same.
AvailableFalseDiscovers ==
    /\ pc = "loop"
    /\ i <= Len(discoverers)
    /\ consulted' = consulted \cup {i}
    /\ calls' = Append(calls, Call(i, "Available", "false"))
    /\ pc' = "discover"
    /\ UNCHANGED <<discoverers, i, j, v, step, seen, result, err, ch,
                   failed, working, yieldedNames, yieldedKeys, first>>
    /\ UNCHANGED <<mergeVars, restVars>>

\* d.Available(ctx) is false: continue with the next producer.
AvailableFalse ==
    /\ pc = "loop"
    /\ i <= Len(discoverers)
    /\ consulted' = consulted \cup {i}
    /\ i' = i + 1
    /\ calls' = Append(calls, Call(i, "Available", "false"))
    /\ UNCHANGED <<discoverers, pc, j, v, step, seen, result, err, ch,
                   failed, working, yieldedNames, yieldedKeys, first>>
    /\ UNCHANGED <<mergeVars, restVars>>

\* d.Available(ctx) is true: go on to d.Discover(ctx).
AvailableTrue ==
    /\ pc = "loop"
    /\ i <= Len(discoverers)
    /\ consulted' = consulted \cup {i}
    /\ pc' = "discover"
    /\ calls' = Append(calls, Call(i, "Available", "true"))
    /\ UNCHANGED <<discoverers, i, j, v, step, seen, result, err, ch,
                   failed, working, yieldedNames, yieldedKeys, first>>
    /\ UNCHANGED <<mergeVars, restVars>>

\* d.Discover(ctx) returns an error and the pass returns it.
DiscoverFailsReturns ==
    /\ pc = "discover"
    /\ failed' = failed \cup {i}
    /\ result' = <<>>
    /\ err' = "error"
    /\ pc' = "returned"
    /\ calls' = Append(calls, Call(i, "Discover", "error"))
    /\ UNCHANGED <<discoverers, i, j, v, step, seen, ch,
                   consulted, working, yieldedNames, yieldedKeys, first>>
    /\ UNCHANGED <<mergeVars, restVars>>

\* d.Discover(ctx) returns an error: continue with the next producer.
DiscoverFails ==
    /\ pc = "discover"
    /\ failed' = failed \cup {i}
    /\ i' = i + 1
    /\ pc' = "loop"
    /\ calls' = Append(calls, Call(i, "Discover", "error"))
    /\ UNCHANGED <<discoverers, j, v, step, seen, result, err, ch,
                   consulted, working, yieldedNames, yieldedKeys, first>>
    /\ UNCHANGED <<mergeVars, restVars>>

\* d.Discover(ctx) returns a slice (of at most MaxVolumes records, each known
\* when the loop reaches it): range over it.
DiscoverReturns ==
    /\ pc = "discover"
    /\ working' = working \cup {i}
    /\ pc' = "range"
    /\ calls' = Append(calls, Call(i, "Discover", "volumes"))
    /\ UNCHANGED <<discoverers, i, j, v, step, seen, result, err, ch,
                   consulted, failed, yieldedNames, yieldedKeys, first>>
    /\ UNCHANGED <<mergeVars, restVars>>

\* What ranging over the next record r leaves unchanged or records.
Ranged(r) ==
    /\ v' = r
    /\ j' = j + 1
    /\ yieldedNames' = yieldedNames \cup {r.DeviceName}
    /\ yieldedKeys' = yieldedKeys \cup {MergeKey(r)}
    /\ UNCHANGED <<discoverers, pc, i, result, err, ch, consulted, failed, working, calls>>
    /\ UNCHANGED <<mergeVars, restVars>>

\* v.DeviceName == "": continue.
RangeSkip ==
    /\ pc = "range"
    /\ j < MaxVolumes
    /\ \E r \in Yields(discoverers[i]) :
        /\ r.DeviceName = ""
        /\ step' = "skip"
        /\ UNCHANGED <<seen, first>>
        /\ Ranged(r)

\* The merge with its arguments swapped: mergeVolumeInfo(v, existing), and v
\* kept as the entry.
RangeMergeSwapped ==
    /\ pc = "range"
    /\ j < MaxVolumes
    /\ \E r \in Yields(discoverers[i]) :
        /\ r.DeviceName # ""
        /\ r.DeviceName \in DOMAIN seen
        /\ step' = "merge"
        /\ seen' = [seen EXCEPT ![r.DeviceName] = mergeVolumeInfo(r, seen[r.DeviceName])]
        /\ UNCHANGED first
        /\ Ranged(r)

\* seen[v.DeviceName] exists: mergeVolumeInfo(existing, v).
RangeMerge ==
    /\ pc = "range"
    /\ j < MaxVolumes
    /\ \E r \in Yields(discoverers[i]) :
        /\ r.DeviceName # ""
        /\ r.DeviceName \in DOMAIN seen
        /\ step' = "merge"
        /\ seen' = [seen EXCEPT ![r.DeviceName] = mergeVolumeInfo(seen[r.DeviceName], r)]
        /\ UNCHANGED first
        /\ Ranged(r)

\* seen[v.DeviceName] does not exist: seen[v.DeviceName] = v.
RangeInsert ==
    /\ pc = "range"
    /\ j < MaxVolumes
    /\ \E r \in Yields(discoverers[i]) :
        /\ r.DeviceName # ""
        /\ r.DeviceName \notin DOMAIN seen
        /\ step' = "insert"
        /\ seen' = MapSet(seen, r.DeviceName, r)
        /\ first' = MapSet(first, r.DeviceName, [d |-> i, v |-> r])
        /\ Ranged(r)

\* The slice is exhausted: volumes and v go out of use, the next producer.
RangeDone ==
    /\ pc = "range"
    /\ i' = i + 1
    /\ pc' = "loop"
    /\ j' = 0
    /\ v' = VolumeInfo
    /\ step' = "none"
    /\ calls' = Append(calls, Call(i, "range", "end"))
    /\ UNCHANGED <<discoverers, seen, result, err, ch, consulted, failed, working,
                   yieldedNames, yieldedKeys, first>>
    /\ UNCHANGED <<mergeVars, restVars>>

\* No producer is left: the values of seen, in map order, and a nil error.
DiscoverReturn ==
    /\ pc = "loop"
    /\ i > Len(discoverers)
    /\ result' \in MapOrders(seen)
    /\ err' = "nil"
    /\ pc' = "returned"
    /\ UNCHANGED <<discoverers, i, j, v, step, seen, ch, consulted, failed, working,
                   yieldedNames, yieldedKeys, first, calls>>
    /\ UNCHANGED <<mergeVars, restVars>>

\* ------------------------------------------------- VolumeCollector.Collect

Metric(desc, collector, value) ==
    [desc |-> desc, collector |-> collector, value |-> value]

\* Collect after v.discoverer.Discover(ctx) has returned: the duration of
\* discovery, then on an error success 0 and return, else success 1 and the
\* number of volumes.
CollectDiscovery ==
    /\ pc = "returned"
    /\ IF err # "nil"
       THEN /\ ch' = ch \o <<Metric("scrape_duration_seconds", "discovery", "duration"),
                            Metric("scrape_success", "discovery", 0)>>
            /\ pc' = "done"
       ELSE /\ ch' = ch \o <<Metric("scrape_duration_seconds", "discovery", "duration"),
                            Metric("scrape_success", "discovery", 1),
                            Metric("volumes_discovered", "", Len(result))>>
            /\ pc' = "resolve"
    /\ UNCHANGED <<discoverers, i, j, v, step, seen, result, err, consulted, failed, working,
                   yieldedNames, yieldedKeys, first, calls>>
    /\ UNCHANGED <<mergeVars, restVars>>

Next ==
    \/ AvailableFalse
    \/ AvailableTrue
    \/ DiscoverFails
    \/ DiscoverReturns
    \/ RangeSkip
    \/ RangeMerge
    \/ RangeInsert
    \/ RangeDone
    \/ DiscoverReturn
    \/ CollectDiscovery

Spec == Init /\ [][Next]_vars

\* ------------------------------------------- mergeVolumeInfo, taken alone

\* The fields mergeVolumeInfo fills by the plain rule (empty on dst: copy).
PlainFields == Fields \ {"PVCName", "PVName", "DeviceName", "DeviceID"}

\* A record with the given key fields and names, whose plain fields in `set`
\* hold `value` and whose other plain fields are empty.
Record(name, id, pvc, pv, set, value) ==
    [f \in Fields |->
        CASE f = "DeviceName" -> name
          [] f = "DeviceID" -> id
          [] f = "PVCName" -> pvc
          [] f = "PVName" -> pv
          [] OTHER -> IF f \in set THEN value ELSE ""]

\* Which plain fields a record has: none, all, or exactly one.
Fillings == {{}, PlainFields} \cup {{f} : f \in PlainFields}

\* The records merged under one key, "sda": every combination of an empty,
\* placeholder or real PVC name with an empty or set PV name, with and
\* without a device-id.
MergeInputs(value) ==
    {Record("sda", id, pvc, pv, set, value) :
        id \in DeviceIDs, pvc \in {"", "pv1", "data"}, pv \in {"", "pv1"},
        set \in Fillings}

InitMerge ==
    /\ dst \in MergeInputs("a")
    /\ src \in MergeInputs("b")
    /\ merged = VolumeInfo
    /\ mpc = "call"
    /\ discoverers = <<>>
    /\ pc = "idle"
    /\ i = 1
    /\ j = 0
    /\ v = VolumeInfo
    /\ step = "none"
    /\ seen = EmptyMap
    /\ result = <<>>
    /\ err = "unset"
    /\ ch = <<>>
    /\ consulted = {}
    /\ failed = {}
    /\ working = {}
    /\ yieldedNames = {}
    /\ yieldedKeys = {}
    /\ first = EmptyMap
    /\ calls = <<>>
    /\ RestIdle

\* mergeVolumeInfo(dst, src) returns: merged is *dst as the call leaves it.
MergeCall ==
    /\ mpc = "call"
    /\ merged' = mergeVolumeInfo(dst, src)
    /\ mpc' = "done"
    /\ UNCHANGED <<dst, src>>
    /\ UNCHANGED <<discoverVars, restVars>>

NextMerge == MergeCall

SpecMerge == InitMerge /\ [][NextMerge]_vars

\* --------------------------------------------- the other parts, at rest

DiscoverIdle ==
    /\ discoverers = <<>>
    /\ pc = "idle"
    /\ i = 1
    /\ j = 0
    /\ v = VolumeInfo
    /\ step = "none"
    /\ seen = EmptyMap
    /\ result = <<>>
    /\ err = "unset"
    /\ ch = <<>>
    /\ consulted = {}
    /\ failed = {}
    /\ working = {}
    /\ yieldedNames = {}
    /\ yieldedKeys = {}
    /\ first = EmptyMap
    /\ calls = <<>>

MergeIdle ==
    /\ dst = VolumeInfo
    /\ src = VolumeInfo
    /\ merged = VolumeInfo
    /\ mpc = "idle"

\* ----------------------------------------------- mounts.FindMountByPath
\* Strings are sequences of one-character strings, so that a prefix and a
\* length are those of the string.

MaxMounts == 3

\* strings.HasPrefix(s, prefix)
HasPrefix(s, prefix) ==
    Len(prefix) <= Len(s) /\ SubSeq(s, 1, Len(prefix)) = prefix

\* Mount points as parseLine leaves them: fields of strings.Fields, never empty.
MountPoints ==
    {<<"/">>, <<"/", "a">>, <<"/", "a", "/", "b">>, <<"/", "b">>}

\* The entries of a mount table: two devices can be mounted at one mount point.
Mounts ==
    {[Device |-> d, MountPoint |-> p, FSType |-> "ext4", Options |-> "rw"] :
        d \in {"/dev/sda", "/dev/sdb"}, p \in MountPoints}

\* The paths looked up: /a/b/c under /a/b, /a itself, /bc which is beside /b
\* and starts with it, and c, which no mount point is a prefix of.
Paths ==
    {<<"/", "a", "/", "b", "/", "c">>, <<"/", "a">>, <<"/", "b", "c">>, <<"c">>}

\* The test of lines 173-174 with >= for >: the last of several wins.
IsBetterOrEqual(m, p, len) ==
    HasPrefix(p, m.MountPoint) /\ Len(m.MountPoint) >= len

\* Lines 173-174: m's mount point is a prefix of path and longer than bestLen.
IsBetter(m, p, len) ==
    HasPrefix(p, m.MountPoint) /\ Len(m.MountPoint) > len

InitFind ==
    /\ mounts \in UNION {[1..n -> Mounts] : n \in 0..MaxMounts}
    /\ path \in Paths
    /\ mnext = 1
    /\ best = 0
    /\ bestLen = 0
    /\ fpc = "loop"
    /\ DiscoverIdle
    /\ MergeIdle
    /\ StatsIdle
    /\ ResolveIdle
    /\ DeviceIDIdle
    /\ CollectIdle
    /\ CSIIdle

\* The loop body for an entry that becomes best.
FindBetter ==
    /\ fpc = "loop"
    /\ mnext <= Len(mounts)
    /\ IsBetter(mounts[mnext], path, bestLen)
    /\ best' = mnext
    /\ bestLen' = Len(mounts[mnext].MountPoint)
    /\ mnext' = mnext + 1
    /\ UNCHANGED <<mounts, path, fpc>>
    /\ UNCHANGED besidesFind

\* The loop body for an entry that is passed over.
FindPass ==
    /\ fpc = "loop"
    /\ mnext <= Len(mounts)
    /\ ~IsBetter(mounts[mnext], path, bestLen)
    /\ mnext' = mnext + 1
    /\ UNCHANGED <<mounts, path, best, bestLen, fpc>>
    /\ UNCHANGED besidesFind

\* return best
FindReturn ==
    /\ fpc = "loop"
    /\ mnext > Len(mounts)
    /\ fpc' = "returned"
    /\ UNCHANGED <<mounts, path, mnext, best, bestLen>>
    /\ UNCHANGED besidesFind

NextFind ==
    \/ FindBetter
    \/ FindPass
    \/ FindReturn

SpecFind == InitFind /\ [][NextFind]_vars

\* ------------------------------------------------------- diskstats.Parse
\* A line of the stats table is the sequence of its fields as strings.Fields
\* gives them, each a sequence of one-character strings, and whether the line
\* is longer than the scanner's token buffer.

MaxLines == 2

\* bufio.MaxScanTokenSize: a longer line ends the scan with ErrTooLong.
MaxScanTokenSize == 65536

Digits == {"0", "1", "2", "3", "4", "5", "6", "7", "8", "9"}

DigitValue(c) ==
    CASE c = "0" -> 0 [] c = "1" -> 1 [] c = "2" -> 2 [] c = "3" -> 3
      [] c = "4" -> 4 [] c = "5" -> 5 [] c = "6" -> 6 [] c = "7" -> 7
      [] c = "8" -> 8 [] c = "9" -> 9

DigitChar(d) == <<"0", "1", "2", "3", "4", "5", "6", "7", "8", "9">>[d + 1]

\* A uint64 is four limbs of 16 bits, the lowest first.
Limb == 65536

Zero64 == <<0, 0, 0, 0>>

\* n * k + c for a small k and c: the low 64 bits and what is carried out.
MulAdd64(n, k, c) ==
    LET t1 == n[1] * k + c
        t2 == n[2] * k + (t1 \div Limb)
        t3 == n[3] * k + (t2 \div Limb)
        t4 == n[4] * k + (t3 \div Limb)
    IN  [low |-> <<t1 % Limb, t2 % Limb, t3 % Limb, t4 % Limb>>,
         carry |-> t4 \div Limb]

\* strconv.ParseUint(text, 10, 64): an error for an empty text, for a
\* character that is no digit and for a value above 2^64 - 1.
RECURSIVE ParseUintFrom(_, _, _)
ParseUintFrom(text, p, acc) ==
    IF p > Len(text) THEN [err |-> FALSE, val |-> acc]
    ELSE IF text[p] \notin Digits THEN [err |-> TRUE, val |-> Zero64]
    ELSE LET r == MulAdd64(acc, 10, DigitValue(text[p]))
         IN  IF r.carry > 0 THEN [err |-> TRUE, val |-> Zero64]
             ELSE ParseUintFrom(text, p + 1, r.low)

ParseUint(text) ==
    IF text = <<>> THEN [err |-> TRUE, val |-> Zero64]
    ELSE ParseUintFrom(text, 1, Zero64)

\* strconv.Atoi(text): an optional sign, then digits. The texts of the model
\* have at most 9 digits, so the value fits.
RECURSIVE AtoiFrom(_, _, _)
AtoiFrom(text, p, acc) ==
    IF p > Len(text) THEN acc
    ELSE AtoiFrom(text, p + 1, acc * 10 + DigitValue(text[p]))

Atoi(text) ==
    LET signed == text # <<>> /\ text[1] \in {"+", "-"}
        body == IF signed THEN Tail(text) ELSE text
    IN  IF body = <<>> \/ \E p \in 1..Len(body) : body[p] \notin Digits
        THEN [err |-> TRUE, val |-> 0]
        ELSE [err |-> FALSE,
              val |-> IF signed /\ text[1] = "-"
                      THEN 0 - AtoiFrom(body, 1, 0) ELSE AtoiFrom(body, 1, 0)]

\* fmt.Sprintf("%d", n)
RECURSIVE DecimalOf(_)
DecimalOf(n) ==
    IF n < 10 THEN <<DigitChar(n)>>
    ELSE Append(DecimalOf(n \div 10), DigitChar(n % 10))

Sprintf_d(n) == IF n < 0 THEN <<"-">> \o DecimalOf(0 - n) ELSE DecimalOf(n)

\* fmt.Sprintf("%d:%d", major, minor)
FormatDeviceID(major, minor) == Sprintf_d(major) \o <<":">> \o Sprintf_d(minor)

\* The counters of Stats, in the order of the fields of a line after the name.
Counters ==
    <<"ReadsCompleted", "ReadsMerged", "SectorsRead", "ReadTimeMs",
      "WritesCompleted", "WritesMerged", "SectorsWritten", "WriteTimeMs",
      "IOInProgress", "IOTimeMs", "WeightedIOTimeMs",
      "DiscardsCompleted", "DiscardsMerged", "SectorsDiscarded", "DiscardTimeMs",
      "FlushCompleted", "FlushTimeMs">>

\* &Stats{}
Stats ==
    [Major |-> 0, Minor |-> 0, DeviceName |-> <<>>,
     ReadsCompleted |-> Zero64, ReadsMerged |-> Zero64, SectorsRead |-> Zero64,
     ReadTimeMs |-> Zero64, WritesCompleted |-> Zero64, WritesMerged |-> Zero64,
     SectorsWritten |-> Zero64, WriteTimeMs |-> Zero64, IOInProgress |-> Zero64,
     IOTimeMs |-> Zero64, WeightedIOTimeMs |-> Zero64,
     DiscardsCompleted |-> Zero64, DiscardsMerged |-> Zero64,
     SectorsDiscarded |-> Zero64, DiscardTimeMs |-> Zero64,
     FlushCompleted |-> Zero64, FlushTimeMs |-> Zero64]

\* Stats.ReadBytesTotal and Stats.WriteBytesTotal: a uint64 product.
ReadBytesTotal(s) == MulAdd64(s.SectorsRead, 512, 0).low
WriteBytesTotal(s) == MulAdd64(s.SectorsWritten, 512, 0).low

\* parseLine with the discard counters taken only from 17 numbers on.
parseLineDiscardsLate(fields) ==
    IF Len(fields) < 14 THEN [err |-> TRUE, stats |-> Stats]
    ELSE
    LET major == Atoi(fields[1])
        minor == Atoi(fields[2])
        nums == [p \in 1..(Len(fields) - 3) |-> ParseUint(fields[p + 3])]
    IN  IF major.err \/ minor.err \/ \E p \in DOMAIN nums : nums[p].err
        THEN [err |-> TRUE, stats |-> Stats]
        ELSE [err |-> FALSE,
              stats |->
                [Major |-> major.val, Minor |-> minor.val, DeviceName |-> fields[3],
                 ReadsCompleted |-> nums[1].val, ReadsMerged |-> nums[2].val,
                 SectorsRead |-> nums[3].val, ReadTimeMs |-> nums[4].val,
                 WritesCompleted |-> nums[5].val, WritesMerged |-> nums[6].val,
                 SectorsWritten |-> nums[7].val, WriteTimeMs |-> nums[8].val,
                 IOInProgress |-> nums[9].val, IOTimeMs |-> nums[10].val,
                 WeightedIOTimeMs |-> nums[11].val,
                 DiscardsCompleted |-> IF Len(nums) >= 17 THEN nums[12].val ELSE Zero64,
                 DiscardsMerged |-> IF Len(nums) >= 17 THEN nums[13].val ELSE Zero64,
                 SectorsDiscarded |-> IF Len(nums) >= 17 THEN nums[14].val ELSE Zero64,
                 DiscardTimeMs |-> IF Len(nums) >= 17 THEN nums[15].val ELSE Zero64,
                 FlushCompleted |-> IF Len(nums) >= 17 THEN nums[16].val ELSE Zero64,
                 FlushTimeMs |-> IF Len(nums) >= 17 THEN nums[17].val ELSE Zero64]]

\* parseLine(line), on the fields of the line: the record, or an error for
\* fewer than 14 fields, a major or minor that is no integer, or a later
\* field that is no uint64.
parseLine(fields) ==
    IF Len(fields) < 14 THEN [err |-> TRUE, stats |-> Stats]
    ELSE
    LET major == Atoi(fields[1])
        minor == Atoi(fields[2])
        nums == [p \in 1..(Len(fields) - 3) |-> ParseUint(fields[p + 3])]
    IN  IF major.err \/ minor.err \/ \E p \in DOMAIN nums : nums[p].err
        THEN [err |-> TRUE, stats |-> Stats]
        ELSE [err |-> FALSE,
              stats |->
                [Major |-> major.val, Minor |-> minor.val, DeviceName |-> fields[3],
                 ReadsCompleted |-> nums[1].val, ReadsMerged |-> nums[2].val,
                 SectorsRead |-> nums[3].val, ReadTimeMs |-> nums[4].val,
                 WritesCompleted |-> nums[5].val, WritesMerged |-> nums[6].val,
                 SectorsWritten |-> nums[7].val, WriteTimeMs |-> nums[8].val,
                 IOInProgress |-> nums[9].val, IOTimeMs |-> nums[10].val,
                 WeightedIOTimeMs |-> nums[11].val,
                 DiscardsCompleted |-> IF Len(nums) >= 15 THEN nums[12].val ELSE Zero64,
                 DiscardsMerged |-> IF Len(nums) >= 15 THEN nums[13].val ELSE Zero64,
                 SectorsDiscarded |-> IF Len(nums) >= 15 THEN nums[14].val ELSE Zero64,
                 DiscardTimeMs |-> IF Len(nums) >= 15 THEN nums[15].val ELSE Zero64,
                 FlushCompleted |-> IF Len(nums) >= 17 THEN nums[16].val ELSE Zero64,
                 FlushTimeMs |-> IF Len(nums) >= 17 THEN nums[17].val ELSE Zero64]]

\* A line as the kernel prints it for a device: major, minor, name and n - 3
\* counters, the p-th counter being base + p.
StatsLine(major, minor, name, n, base) ==
    [p \in 1..n |->
        CASE p = 1 -> Sprintf_d(major)
          [] p = 2 -> Sprintf_d(minor)
          [] p = 3 -> name
          [] OTHER -> Sprintf_d(base + p - 3)]

SetField(fields, p, text) == [fields EXCEPT ![p] = text]

Sda == <<"s", "d", "a">>
Sdb == <<"s", "d", "b">>

\* 2^55, 2^64 - 1 and 2^64 in decimal.
Text2p55 ==
    <<"3", "6", "0", "2", "8", "7", "9", "7", "0", "1", "8", "9", "6", "3", "9", "6", "8">>
Text2p64m1 ==
    <<"1", "8", "4", "4", "6", "7", "4", "4", "0", "7", "3", "7", "0", "9", "5", "5",
      "1", "6", "1", "5">>
Text2p64 ==
    <<"1", "8", "4", "4", "6", "7", "4", "4", "0", "7", "3", "7", "0", "9", "5", "5",
      "1", "6", "1", "6">>

\* The field lists of the lines of the model: lines of every kernel
\* generation for sda and sdb, short lines, an empty line, lines with a field
\* that is no number, and lines with sector and read counts at the edge of
\* uint64.
FieldLists ==
    {StatsLine(8, 0, Sda, n, 0) : n \in {13, 14, 17, 18, 19, 20, 21}}
    \cup {StatsLine(8, 16, Sdb, n, 100) : n \in {14, 20}}
    \cup {<<>>,
          SetField(StatsLine(8, 0, Sda, 14, 0), 1, <<"x">>),
          SetField(StatsLine(8, 0, Sda, 14, 0), 6, <<"-", "1">>),
          SetField(StatsLine(8, 0, Sda, 20, 0), 20, <<"x">>),
          SetField(StatsLine(8, 0, Sda, 14, 0), 6, Text2p55),
          SetField(StatsLine(8, 16, Sdb, 14, 100), 4, Text2p64m1),
          SetField(StatsLine(8, 0, Sda, 14, 0), 4, Text2p64)}

\* A line: its fields and the blanks that follow them.
StatsLines ==
    {[fields |-> f, pad |-> 0] : f \in FieldLists}
    \cup {[fields |-> StatsLine(8, 0, Sda, 14, 0), pad |-> MaxScanTokenSize]}

\* The length of a line in bytes: its fields, one blank between two, the pad.
RECURSIVE FieldBytes(_, _)
FieldBytes(fields, p) ==
    IF p > Len(fields) THEN 0 ELSE Len(fields[p]) + 1 + FieldBytes(fields, p + 1)

LineBytes(line) == FieldBytes(line.fields, 1) + line.pad

\* scanner.Scan() gives the line: it fits the scanner's buffer.
Fits(line) == LineBytes(line) < MaxScanTokenSize

InitStats ==
    /\ lines \in UNION {[1..n -> StatsLines] : n \in 0..MaxLines}
    /\ lnext = 1
    /\ ByName = <<>>
    /\ ByDeviceID = <<>>
    /\ serr = "unset"
    /\ spc = "open"
    /\ DiscoverIdle
    /\ MergeIdle
    /\ FindIdle
    /\ ResolveIdle
    /\ DeviceIDIdle
    /\ CollectIdle
    /\ CSIIdle

\* os.Open fails: return nil, "open diskstats".
ParseOpenFails ==
    /\ spc = "open"
    /\ serr' = "open diskstats"
    /\ spc' = "returned"
    /\ UNCHANGED <<lines, lnext, ByName, ByDeviceID>>
    /\ UNCHANGED besidesStats

\* os.Open succeeds: the two maps are made.
ParseOpen ==
    /\ spc = "open"
    /\ spc' = "scan"
    /\ UNCHANGED <<lines, lnext, ByName, ByDeviceID, serr>>
    /\ UNCHANGED besidesStats

\* parseLine returns an error: continue.
ScanSkip ==
    /\ spc = "scan"
    /\ lnext <= Len(lines)
    /\ Fits(lines[lnext])
    /\ parseLine(lines[lnext].fields).err
    /\ lnext' = lnext + 1
    /\ UNCHANGED <<lines, ByName, ByDeviceID, serr, spc>>
    /\ UNCHANGED besidesStats

\* parseLine returns stats: it is put in both maps.
ScanStore ==
    /\ spc = "scan"
    /\ lnext <= Len(lines)
    /\ Fits(lines[lnext])
    /\ LET r == parseLine(lines[lnext].fields)
       IN  /\ ~r.err
           /\ ByName' = MapSet(ByName, r.stats.DeviceName, r.stats)
           /\ ByDeviceID' = MapSet(ByDeviceID,
                                   FormatDeviceID(r.stats.Major, r.stats.Minor), r.stats)
    /\ lnext' = lnext + 1
    /\ UNCHANGED <<lines, serr, spc>>
    /\ UNCHANGED besidesStats

\* scanner.Scan() returns false on a line that does not fit its buffer and
\* scanner.Err() is ErrTooLong: return nil, "scan diskstats".
ScanTooLong ==
    /\ spc = "scan"
    /\ lnext <= Len(lines)
    /\ ~Fits(lines[lnext])
    /\ ByName' = <<>>
    /\ ByDeviceID' = <<>>
    /\ serr' = "scan diskstats: token too long"
    /\ spc' = "returned"
    /\ UNCHANGED <<lines, lnext>>
    /\ UNCHANGED besidesStats

\* scanner.Scan() returns false on a failed read and scanner.Err() is the
\* read's error: return nil, "scan diskstats".
ScanReadFails ==
    /\ spc = "scan"
    /\ ByName' = <<>>
    /\ ByDeviceID' = <<>>
    /\ serr' = "scan diskstats: read"
    /\ spc' = "returned"
    /\ UNCHANGED <<lines, lnext>>
    /\ UNCHANGED besidesStats

\* scanner.Scan() returns false at the end of the input: return result, nil.
ParseReturn ==
    /\ spc = "scan"
    /\ lnext > Len(lines)
    /\ serr' = "nil"
    /\ spc' = "returned"
    /\ UNCHANGED <<lines, lnext, ByName, ByDeviceID>>
    /\ UNCHANGED besidesStats

NextStats ==
    \/ ParseOpenFails
    \/ ParseOpen
    \/ ScanSkip
    \/ ScanStore
    \/ ScanTooLong
    \/ ScanReadFails
    \/ ParseReturn

SpecStats == InitStats /\ [][NextStats]_vars

\* -------------------------------------- mounts.ResolveDevice, evalSymlinks
\* A path is the sequence of its separators and names; a name is a number.

\* The limit of the loop of evalSymlinks.
MaxHops == 255

\* The longest of the short chains of links of the model.
MaxChain == 2

Slash == 0
DotDot == 1
Dev == 2
Tmpfs == 3
FirstLink == 10

\* /dev/<k>: the k-th path of a chain.
LinkPath(k) == <<Slash, Dev, Slash, FirstLink + k>>

\* Chains of no link, of a few, and of as many as the loop's limit, one less
\* and one more.
ChainLengths == (0..MaxChain) \cup {MaxHops - 1, MaxHops, MaxHops + 1}

\* What is under /dev: a chain /dev/0 -> /dev/1 -> ... of `links` links whose
\* targets are absolute ("abs"), relative ("rel") or in turn relative through
\* ".." and absolute ("dotdot"), and that ends at a file, at nothing, or at
\* its own start.
FileSystems ==
    {fs \in [links : ChainLengths, style : {"abs", "rel", "dotdot"},
             end : {"file", "missing", "cycle"}] :
        fs.end = "cycle" => fs.links >= 1}

\* The names the kernel is at after walking a path from the root.
RECURSIVE Walk(_, _, _)
Walk(p, k, stack) ==
    IF k > Len(p) THEN stack
    ELSE IF p[k] = Slash THEN Walk(p, k + 1, stack)
    ELSE IF p[k] = DotDot
         THEN Walk(p, k + 1, IF stack = <<>> THEN <<>>
                             ELSE SubSeq(stack, 1, Len(stack) - 1))
    ELSE Walk(p, k + 1, Append(stack, p[k]))

\* os.Lstat(p): "link", "file" (anything that is no link) or "error".
Lstat(fs, p) ==
    LET at == Walk(p, 1, <<>>)
    IN  IF p = <<>> THEN "error"
        ELSE IF at = <<>> \/ at = <<Dev>> THEN "file"
        ELSE IF Len(at) = 2 /\ at[1] = Dev /\ at[2] >= FirstLink
        THEN IF at[2] - FirstLink < fs.links THEN "link"
             ELSE IF at[2] - FirstLink = fs.links /\ fs.end = "file" THEN "file"
             ELSE "error"
        ELSE "error"

\* os.Readlink(p) for a p that is a link.
Readlink(fs, p) ==
    LET k == Walk(p, 1, <<>>)[2] - FirstLink
        closing == fs.end = "cycle" /\ k = fs.links - 1
        next == IF closing THEN 0 ELSE k + 1
    IN  CASE fs.style = "rel" -> <<FirstLink + next>>
          [] fs.style = "dotdot" /\ k % 2 = 0 /\ ~closing
                -> <<DotDot, Slash, Dev, Slash, FirstLink + next>>
          [] OTHER -> LinkPath(next)

\* strings.LastIndex(p, "/") + 1
AfterLastSlash(p) ==
    IF \E k \in 1..Len(p) : p[k] = Slash
    THEN CHOOSE k \in 1..Len(p) : p[k] = Slash /\ \A l \in (k + 1)..Len(p) : p[l] # Slash
    ELSE 0

\* Lines 148-154: the path after a link at p with the given target.
Follow(p, target) ==
    IF target = <<>> \/ target[1] # Slash
    THEN SubSeq(p, 1, AfterLastSlash(p)) \o target
    ELSE target

\* i++ that leaves i as it is.
SameHop(n) == n

\* i++
NextHop(n) == n + 1

\* parts[len(parts)-1] of strings.Split(p, "/")
LastPart(p) == SubSeq(p, AfterLastSlash(p) + 1, Len(p))

InitResolve ==
    /\ fsys \in FileSystems
    /\ devicePath \in {LinkPath(0)}
          \cup (IF fsys.links = 0 THEN {<<Tmpfs>>, <<Slash, Dev, Slash>>} ELSE {})
    /\ epath = devicePath
    /\ hops = 0
    /\ eerr = "unset"
    /\ resolvedPath = <<>>
    /\ deviceName = <<>>
    /\ rpc = "eval"
    /\ DiscoverIdle
    /\ MergeIdle
    /\ FindIdle
    /\ StatsIdle
    /\ DeviceIDIdle
    /\ CollectIdle
    /\ CSIIdle

\* os.Lstat fails: return path, err.
EvalLstatFails ==
    /\ rpc = "eval"
    /\ hops < MaxHops
    /\ Lstat(fsys, epath) = "error"
    /\ eerr' = "lstat"
    /\ rpc' = "evaluated"
    /\ UNCHANGED <<fsys, devicePath, epath, hops, resolvedPath, deviceName>>
    /\ UNCHANGED besidesResolve

\* The path is no link: return path, nil.
EvalNotLink ==
    /\ rpc = "eval"
    /\ hops < MaxHops
    /\ Lstat(fsys, epath) = "file"
    /\ eerr' = "nil"
    /\ rpc' = "evaluated"
    /\ UNCHANGED <<fsys, devicePath, epath, hops, resolvedPath, deviceName>>
    /\ UNCHANGED besidesResolve

\* The path is a link but os.Readlink fails: return path, err.
EvalReadlinkFails ==
    /\ rpc = "eval"
    /\ hops < MaxHops
    /\ Lstat(fsys, epath) = "link"
    /\ eerr' = "readlink"
    /\ rpc' = "evaluated"
    /\ UNCHANGED <<fsys, devicePath, epath, hops, resolvedPath, deviceName>>
    /\ UNCHANGED besidesResolve

\* The path is a link: path becomes its target, and the next iteration.
EvalFollow ==
    /\ rpc = "eval"
    /\ hops < MaxHops
    /\ Lstat(fsys, epath) = "link"
    /\ epath' = Follow(epath, Readlink(fsys, epath))
    /\ hops' = NextHop(hops)
    /\ UNCHANGED <<fsys, devicePath, eerr, resolvedPath, deviceName, rpc>>
    /\ UNCHANGED besidesResolve

\* The loop has run 255 times: return path, "too many symlinks".
EvalTooMany ==
    /\ rpc = "eval"
    /\ hops >= MaxHops
    /\ eerr' = "too many symlinks"
    /\ rpc' = "evaluated"
    /\ UNCHANGED <<fsys, devicePath, epath, hops, resolvedPath, deviceName>>
    /\ UNCHANGED besidesResolve

\* ResolveDevice after evalSymlinks: devicePath on an error, and the last
\* part of what is returned.
ResolveReturn ==
    /\ rpc = "evaluated"
    /\ resolvedPath' = IF eerr # "nil" THEN devicePath ELSE epath
    /\ deviceName' = LastPart(resolvedPath')
    /\ rpc' = "returned"
    /\ UNCHANGED <<fsys, devicePath, epath, hops, eerr>>
    /\ UNCHANGED besidesResolve

NextResolve ==
    \/ EvalLstatFails
    \/ EvalNotLink
    \/ EvalReadlinkFails
    \/ EvalFollow
    \/ EvalTooMany
    \/ ResolveReturn

SpecResolve == InitResolve /\ [][NextResolve]_vars

\* The call is not suspended for ever: a step that can be taken is taken.
SpecResolveLive == SpecResolve /\ WF_vars(NextResolve)

\* ------------------------------------------------------ mounts.GetDeviceID
\* stat.Dev is a uint64, here the sequence of its 64 bits, the lowest first.

Width == 64

\* The bits of a number below 2^31.
BitsOf(n) == [p \in 1..Width |-> IF p > 31 THEN 0 ELSE (n \div 2^(p - 1)) % 2]

\* The number a uint64 below 2^31 is.
RECURSIVE ValueFrom(_, _)
ValueFrom(b, p) == IF p > 31 THEN 0 ELSE b[p] * 2^(p - 1) + ValueFrom(b, p + 1)

ValueOf(b) == ValueFrom(b, 1)

\* b >> k, b << k, a & b, a | b on uint64
Shr(b, k) == [p \in 1..Width |-> IF p + k <= Width THEN b[p + k] ELSE 0]
Shl(b, k) == [p \in 1..Width |-> IF p - k >= 1 THEN b[p - k] ELSE 0]
And(a, b) == [p \in 1..Width |-> a[p] * b[p]]
Or(a, b) == [p \in 1..Width |-> IF a[p] + b[p] > 0 THEN 1 ELSE 0]

\* The masks of GetDeviceID: 0xfff, 0xff and 0xfff00.
Mask12 == 4095
Mask8 == 255
Mask12Above8 == 1048320

\* The device number the kernel gives for major and minor; major has up to 32 bits
\* of which the low 12 are at bit 8 and the rest at bit 44, minor has up to 32
\* bits of which the low 8 are at bit 0 and the rest at bit 20.
Makedev(major, minor) ==
    LET ma == BitsOf(major)
        mi == BitsOf(minor)
    IN  Or(Or(Shl(And(ma, BitsOf(Mask12)), 8),
              Shl(Shr(ma, 12), 44)),
           Or(And(mi, BitsOf(Mask8)),
              Shl(Shr(mi, 8), 20)))

\* The device numbers of the model: the least and the greatest, and those
\* around the 8-bit and the 12-bit limits of the old encoding.
Majors == {0, 1, 8, 253, 255, 256, 259, 4095, 4096}
Minors == {0, 1, 16, 255, 256, 257, 65535, 65536, 1048575}

\* Line 125 with the low 8 bits only.
MinorOfLow(dev) == And(dev, BitsOf(Mask8))

\* Line 124: (stat.Dev >> 8) & 0xfff
MajorOf(dev) == And(Shr(dev, 8), BitsOf(Mask12))

\* Line 125: (stat.Dev & 0xff) | ((stat.Dev >> 12) & 0xfff00)
MinorOf(dev) == Or(And(dev, BitsOf(Mask8)), And(Shr(dev, 12), BitsOf(Mask12Above8)))

InitDeviceID ==
    /\ stMajor \in Majors
    /\ stMinor \in Minors
    /\ statDev = [p \in 1..Width |-> 0]
    /\ gid = <<>>
    /\ gerr = "unset"
    /\ gpc = "stat"
    /\ DiscoverIdle
    /\ MergeIdle
    /\ FindIdle
    /\ StatsIdle
    /\ ResolveIdle
    /\ CollectIdle
    /\ CSIIdle

\* syscall.Stat fails: return "", err.
StatFails ==
    /\ gpc = "stat"
    /\ gerr' = "stat"
    /\ gpc' = "returned"
    /\ UNCHANGED <<stMajor, stMinor, statDev, gid>>
    /\ UNCHANGED besidesDeviceID

\* syscall.Stat fills stat.
StatSucceeds ==
    /\ gpc = "stat"
    /\ statDev' = Makedev(stMajor, stMinor)
    /\ gpc' = "decode"
    /\ UNCHANGED <<stMajor, stMinor, gid, gerr>>
    /\ UNCHANGED besidesDeviceID

\* return fmt.Sprintf("%d:%d", major, minor), nil
GetDeviceIDReturn ==
    /\ gpc = "decode"
    /\ gid' = FormatDeviceID(ValueOf(MajorOf(statDev)), ValueOf(MinorOf(statDev)))
    /\ gerr' = "nil"
    /\ gpc' = "returned"
    /\ UNCHANGED <<stMajor, stMinor, statDev>>
    /\ UNCHANGED besidesDeviceID

NextDeviceID ==
    \/ StatFails
    \/ StatSucceeds
    \/ GetDeviceIDReturn

SpecDeviceID == InitDeviceID /\ [][NextDeviceID]_vars

\* ------------------------------ Collect after discovery: backfill, fan-out
\* The scrape from the return of Discover on: the discovery metrics
\* (CollectDiscovery, which appends them to ch), resolveDeviceNames, then one
\* goroutine per sub-collector, each with one goroutine per record, all
\* sending on the channel. What the goroutines send is kept as the bag sent,
\* each metric with the number of times it was sent: the channel keeps no
\* order between senders.

\* The most records Discover has returned.
MaxDiscovered == 2

\* NewVolumeCollector(multi, cfg.HostProcPath, diskstats, capacity)
Collectors == <<"diskstats", "capacity">>

\* Two of the metrics of diskstatsMetrics and two of capacityMetrics.
diskstatsMetrics == <<"reads_completed_total", "read_bytes_total">>
capacityMetrics == <<"capacity_bytes_total", "capacity_bytes_free">>

MetricSet(c) == IF c = "diskstats" THEN diskstatsMetrics ELSE capacityMetrics

\* A metric on ch: its name, the sub-collector it is of or that sent it, its
\* value (0 where the model has none) and its labels.
SentMetric(desc, collector, value, labels) ==
    [desc |-> desc, collector |-> collector, value |-> value, labels |-> labels]

\* volumeLabels(vol)
volumeLabels(vol) ==
    <<vol.DeviceName, vol.PVCName, vol.PVCNamespace, vol.PVName, vol.PodName,
      vol.PodNamespace, vol.StorageClass, vol.CSIDriver>>

\* What diskstats.Parse returns for the stats table of the node when it
\* returns no error: sda is 8:0 and sdb is 8:16.
ProcDiskstats ==
    [ByName |-> [n \in {"sda", "sdb"} |-> [DeviceName |-> n]],
     ByDeviceID |-> [id \in {"8:0", "8:16"} |->
                        [DeviceName |-> IF id = "8:0" THEN "sda" ELSE "sdb"]]]

\* The records Discover has returned: one of the API-query producer for sda
\* with a device-id the stats table does not have, one of the API-query
\* producer whose device path did not resolve to a kernel name and whose
\* device-id is that of sdb, and one of the filesystem-scan producer for sdb,
\* without a device-id.
Discovered ==
    {K8sVolumeInfo([ClaimName |-> "data", Namespace |-> "ns1", VolumeName |-> "pv1"],
                   "pod1", "uid1",
                   [Device |-> "/dev/disk/by-id/vol1", Resolved |-> "/dev/sda", Name |-> "sda"],
                   "8:1", "/kubelet/uid1/mount", "/data", PvcMeta),
     K8sVolumeInfo([ClaimName |-> "logs", Namespace |-> "ns2", VolumeName |-> "pv2"],
                   "pod2", "uid2",
                   [Device |-> "/dev/disk/by-id/vol2", Resolved |-> "/dev/disk/by-id/vol2",
                    Name |-> "vol2"],
                   "8:16", "/kubelet/uid2/mount", "/logs", PvcMeta),
     CSIVolumeInfo([VolumeName |-> "pv3", DriverName |-> "drv", VolumeHandle |-> "h3",
                    PodName |-> "pod3", PodNamespace |-> "ns3"],
                   "uid3", [Device |-> "/dev/sdb", Resolved |-> "/dev/sdb", Name |-> "sdb"],
                   "/kubelet/uid3/mount")}

\* The slices of up to n records, no record twice.
Slices(S, n) ==
    UNION {{s \in [1..len -> S] : \A a, b \in 1..len : a # b => s[a] # s[b]} :
             len \in 0..n}

\* A goroutine of Update that has not been started.
NoTask == [st |-> "none", n |-> 0, labels |-> <<>>]

\* v.discoverer.Discover(ctx) has returned the slice r and a nil error (it
\* returns no other, types.go:85). The pass that led to r is that of Spec; of
\* its variables only result and err are kept here.
DiscoverHasReturned(r) ==
    /\ discoverers = <<>>
    /\ pc = "returned"
    /\ i = 1
    /\ j = 0
    /\ v = VolumeInfo
    /\ step = "none"
    /\ seen = EmptyMap
    /\ result = r
    /\ err = "nil"
    /\ ch = <<>>
    /\ consulted = {}
    /\ failed = {}
    /\ working = {}
    /\ yieldedNames = {}
    /\ yieldedKeys = {}
    /\ first = EmptyMap
    /\ calls = <<>>

\* Collect at line 73: Discover has returned the records of volumes. cpc is
\* the position of Collect from line 86 on, reached when pc is "resolve".
InitCollect ==
    /\ volumes \in Slices(Discovered, MaxDiscovered)
    /\ sent = EmptyBag
    /\ cpc = "resolve"
    /\ cnext = 1
    /\ wg = 0
    /\ bpc = "parse"
    /\ bnext = 1
    /\ upc = [k \in 1..Len(Collectors) |-> "none"]
    /\ unext = [k \in 1..Len(Collectors) |-> 1]
    /\ uwg = [k \in 1..Len(Collectors) |-> 0]
    /\ uerr = [k \in 1..Len(Collectors) |-> "unset"]
    /\ tpc = [k \in 1..Len(Collectors) |-> [r \in 1..Len(volumes) |-> NoTask]]
    /\ DiscoverHasReturned(volumes)
    /\ MergeIdle
    /\ FindIdle
    /\ StatsIdle
    /\ ResolveIdle
    /\ DeviceIDIdle
    /\ CSIIdle

\* wg.Wait() that returns at once.
WaitReturnsAtOnce(counter) == TRUE

\* wg.Wait() returns: the counter is zero.
WaitReturns(counter) == counter = 0

\* Line 89 is reached however far resolveDeviceNames is.
ResolveStarted(b) == TRUE

\* Line 89 is reached: resolveDeviceNames has returned.
ResolveReturned(b) == b \in {"failed", "done"}

\* resolveDeviceNames: diskstats.Parse fails, and Collect returns.
ResolveParseFailsAborts ==
    /\ pc = "resolve"
    /\ bpc = "parse"
    /\ bpc' = "failed"
    /\ cpc' = "returned"
    /\ UNCHANGED <<volumes, sent, cnext, wg, bnext, upc, unext, uwg, uerr, tpc>>
    /\ UNCHANGED besidesCollect

\* resolveDeviceNames: diskstats.Parse fails, return.
ResolveParseFails ==
    /\ pc = "resolve"
    /\ bpc = "parse"
    /\ bpc' = "failed"
    /\ UNCHANGED <<volumes, sent, cpc, cnext, wg, bnext, upc, unext, uwg, uerr, tpc>>
    /\ UNCHANGED besidesCollect

\* resolveDeviceNames: diskstats.Parse returns the index.
ResolveParse ==
    /\ pc = "resolve"
    /\ bpc = "parse"
    /\ bpc' = "range"
    /\ UNCHANGED <<volumes, sent, cpc, cnext, wg, bnext, upc, unext, uwg, uerr, tpc>>
    /\ UNCHANGED besidesCollect

\* resolveDeviceNames, the loop body with the index read without the test of
\* line 130: a DeviceID the index does not have gives the zero name.
ResolveRangeUnchecked ==
    /\ bpc = "range"
    /\ bnext <= Len(volumes)
    /\ volumes' =
          IF volumes[bnext].DeviceID # ""
          THEN [volumes EXCEPT ![bnext].DeviceName =
                    IF volumes[bnext].DeviceID \in DOMAIN ProcDiskstats.ByDeviceID
                    THEN ProcDiskstats.ByDeviceID[volumes[bnext].DeviceID].DeviceName
                    ELSE ""]
          ELSE volumes
    /\ bnext' = bnext + 1
    /\ UNCHANGED <<sent, cpc, cnext, wg, bpc, upc, unext, uwg, uerr, tpc>>
    /\ UNCHANGED besidesCollect

\* resolveDeviceNames, the loop body: the record's DeviceName is set to the
\* name the index has for its DeviceID, if it has a DeviceID and the index
\* has it.
ResolveRange ==
    /\ bpc = "range"
    /\ bnext <= Len(volumes)
    /\ volumes' =
          IF volumes[bnext].DeviceID # ""
             /\ volumes[bnext].DeviceID \in DOMAIN ProcDiskstats.ByDeviceID
          THEN [volumes EXCEPT ![bnext].DeviceName =
                    ProcDiskstats.ByDeviceID[volumes[bnext].DeviceID].DeviceName]
          ELSE volumes
    /\ bnext' = bnext + 1
    /\ UNCHANGED <<sent, cpc, cnext, wg, bpc, upc, unext, uwg, uerr, tpc>>
    /\ UNCHANGED besidesCollect

\* resolveDeviceNames returns after the loop.
ResolveDone ==
    /\ bpc = "range"
    /\ bnext > Len(volumes)
    /\ bpc' = "done"
    /\ UNCHANGED <<volumes, sent, cpc, cnext, wg, bnext, upc, unext, uwg, uerr, tpc>>
    /\ UNCHANGED besidesCollect

\* Collect: wg.Add(len(v.collectors))
CollectAdd ==
    /\ cpc = "resolve"
    /\ ResolveReturned(bpc)
    /\ wg' = Len(Collectors)
    /\ cpc' = "go"
    /\ UNCHANGED <<volumes, sent, cnext, bpc, bnext, upc, unext, uwg, uerr, tpc>>
    /\ UNCHANGED besidesCollect

\* Collect: go func(c) for the next sub-collector; its goroutine is at the
\* start of c.Update, which for diskstats is the call of Parse.
CollectGo ==
    /\ cpc = "go"
    /\ upc' = [upc EXCEPT ![cnext] =
                  IF Collectors[cnext] = "diskstats" THEN "parse" ELSE "range"]
    /\ cnext' = cnext + 1
    /\ cpc' = IF cnext = Len(Collectors) THEN "wait" ELSE "go"
    /\ UNCHANGED <<volumes, sent, wg, bpc, bnext, unext, uwg, uerr, tpc>>
    /\ UNCHANGED besidesCollect

\* Collect: wg.Wait() returns, and Collect with it.
CollectWait ==
    /\ cpc = "wait"
    /\ WaitReturns(wg)
    /\ cpc' = "returned"
    /\ UNCHANGED <<volumes, sent, cnext, wg, bpc, bnext, upc, unext, uwg, uerr, tpc>>
    /\ UNCHANGED besidesCollect

\* DiskstatsCollector.Update: diskstats.Parse fails, return err.
UpdateParseFails ==
    \E c \in 1..Len(Collectors) :
        /\ upc[c] = "parse"
        /\ uerr' = [uerr EXCEPT ![c] = "error"]
        /\ upc' = [upc EXCEPT ![c] = "duration"]
        /\ UNCHANGED <<volumes, sent, cpc, cnext, wg, bpc, bnext, unext, uwg, tpc>>
        /\ UNCHANGED besidesCollect

\* DiskstatsCollector.Update: diskstats.Parse returns the index.
UpdateParse ==
    \E c \in 1..Len(Collectors) :
        /\ upc[c] = "parse"
        /\ upc' = [upc EXCEPT ![c] = "range"]
        /\ UNCHANGED <<volumes, sent, cpc, cnext, wg, bpc, bnext, unext, uwg, uerr, tpc>>
        /\ UNCHANGED besidesCollect

\* The record an Update starts a goroutine for: for diskstats one whose
\* DeviceName the index has, for capacity one with a MountPath.
Selects(c, vol) ==
    IF Collectors[c] = "diskstats"
    THEN vol.DeviceName \in DOMAIN ProcDiskstats.ByName
    ELSE vol.MountPath # ""

\* Update, the loop body: continue, or wg.Add(1) and go func(vol).
UpdateRange ==
    \E c \in 1..Len(Collectors) :
        /\ upc[c] = "range"
        /\ unext[c] <= Len(volumes)
        /\ IF Selects(c, volumes[unext[c]])
           THEN /\ uwg' = [uwg EXCEPT ![c] = @ + 1]
                /\ tpc' = [tpc EXCEPT ![c][unext[c]].st = "ready"]
           ELSE UNCHANGED <<uwg, tpc>>
        /\ unext' = [unext EXCEPT ![c] = @ + 1]
        /\ UNCHANGED <<volumes, sent, cpc, cnext, wg, bpc, bnext, upc, uerr>>
        /\ UNCHANGED besidesCollect

\* Update: after the loop wg.Wait() returns, return nil.
UpdateWait ==
    \E c \in 1..Len(Collectors) :
        /\ upc[c] = "range"
        /\ unext[c] > Len(volumes)
        /\ WaitReturns(uwg[c])
        /\ uerr' = [uerr EXCEPT ![c] = "nil"]
        /\ upc' = [upc EXCEPT ![c] = "duration"]
        /\ UNCHANGED <<volumes, sent, cpc, cnext, wg, bpc, bnext, unext, uwg, tpc>>
        /\ UNCHANGED besidesCollect

\* execute: the duration of Update is sent.
ExecuteDuration ==
    \E c \in 1..Len(Collectors) :
        /\ upc[c] = "duration"
        /\ sent' = sent (+) SetToBag({SentMetric("scrape_duration_seconds",
                                                  Collectors[c], 0, <<>>)})
        /\ upc' = [upc EXCEPT ![c] = "success"]
        /\ UNCHANGED <<volumes, cpc, cnext, wg, bpc, bnext, unext, uwg, uerr, tpc>>
        /\ UNCHANGED besidesCollect

\* execute without the return of line 112: on an error success 0 is sent and
\* success 1 after it.
ExecuteSuccessNoReturn ==
    \E c \in 1..Len(Collectors) :
        /\ upc[c] = "success"
        /\ sent' = sent (+) SetToBag(
              (IF uerr[c] # "nil"
               THEN {SentMetric("scrape_success", Collectors[c], 0, <<>>)}
               ELSE {})
              \cup {SentMetric("scrape_success", Collectors[c], 1, <<>>)})
        /\ upc' = [upc EXCEPT ![c] = "done"]
        /\ wg' = wg - 1
        /\ UNCHANGED <<volumes, cpc, cnext, bpc, bnext, unext, uwg, uerr, tpc>>
        /\ UNCHANGED besidesCollect

\* execute: success 0 is sent on an error, else success 1; then the deferred
\* wg.Done().
ExecuteSuccess ==
    \E c \in 1..Len(Collectors) :
        /\ upc[c] = "success"
        /\ sent' = sent (+) SetToBag({SentMetric("scrape_success", Collectors[c],
                                         IF uerr[c] # "nil" THEN 0 ELSE 1, <<>>)})
        /\ upc' = [upc EXCEPT ![c] = "done"]
        /\ wg' = wg - 1
        /\ UNCHANGED <<volumes, cpc, cnext, bpc, bnext, unext, uwg, uerr, tpc>>
        /\ UNCHANGED besidesCollect

\* The goroutine of CapacityCollector.Update: mounts.GetCapacity fails, and
\* the deferred wg.Done().
TaskGetCapacityFails ==
    \E c \in 1..Len(Collectors) : \E r \in 1..Len(volumes) :
        /\ Collectors[c] = "capacity"
        /\ tpc[c][r].st = "ready"
        /\ tpc' = [tpc EXCEPT ![c][r].st = "done"]
        /\ uwg' = [uwg EXCEPT ![c] = @ - 1]
        /\ UNCHANGED <<volumes, sent, cpc, cnext, wg, bpc, bnext, upc, unext, uerr>>
        /\ UNCHANGED besidesCollect

\* The goroutine of an Update: MetricSet.Collect sends its next metric, the
\* first after volumeLabels(vol) has read the record; after the last, the
\* deferred wg.Done().
TaskSend ==
    \E c \in 1..Len(Collectors) : \E r \in 1..Len(volumes) :
        /\ tpc[c][r].st \in {"ready", "send"}
        /\ LET labels == IF tpc[c][r].st = "ready" THEN volumeLabels(volumes[r])
                         ELSE tpc[c][r].labels
               n == tpc[c][r].n + 1
               last == n = Len(MetricSet(Collectors[c]))
           IN  /\ sent' = sent (+) SetToBag(
                     {SentMetric(MetricSet(Collectors[c])[n], Collectors[c], 0, labels)})
               /\ tpc' = [tpc EXCEPT ![c][r] =
                             [st |-> IF last THEN "done" ELSE "send",
                              n |-> n, labels |-> labels]]
               /\ uwg' = [uwg EXCEPT ![c] = IF last THEN @ - 1 ELSE @]
        /\ UNCHANGED <<volumes, cpc, cnext, wg, bpc, bnext, upc, unext, uerr>>
        /\ UNCHANGED besidesCollect

NextCollect ==
    \/ CollectDiscovery
    \/ ResolveParseFails
    \/ ResolveParse
    \/ ResolveRange
    \/ ResolveDone
    \/ CollectAdd
    \/ CollectGo
    \/ CollectWait
    \/ UpdateParseFails
    \/ UpdateParse
    \/ UpdateRange
    \/ UpdateWait
    \/ ExecuteDuration
    \/ ExecuteSuccess
    \/ TaskGetCapacityFails
    \/ TaskSend

SpecCollect == InitCollect /\ [][NextCollect]_vars

\* ------------------------------------------------ CSIDiscoverer.Discover
\* The kubelet directory as the calls of Discover see it: what mounts.Parse
\* returns, what os.ReadDir returns for the pods directory, and for each
\* entry what os.Stat, os.ReadDir and readVolData return. Paths are sequences
\* of one-character strings with one-character names.

\* The most entries of the pods directory.
MaxPodDirs == 2

\* filepath.Join(dir, name) for a clean dir and a name without separators.
Join(dir, name) == dir \o <<"/">> \o name

\* filepath.Join(d.kubeletPath, "pods"), and the paths of lines 63, 70, 99
\* and 100 under it.
PodsDir == Join(<<"/", "k">>, <<"p">>)
CSIDir(podUID) == Join(Join(Join(PodsDir, <<podUID>>), <<"v">>), <<"c">>)
MountPathOf(podUID, volName) == Join(Join(CSIDir(podUID), <<volName>>), <<"m">>)

\* podDir.Name() of the entry at position k, and volDir.Name() of the entry
\* at position n of a CSI directory.
VolNames == <<"a", "b">>
PodUIDAt(k) == DigitChar(k)
VolNameAt(n) == VolNames[n]

\* What readVolData returns: an error of os.ReadFile, an error of
\* json.Unmarshal, or the keys of the file (all of them, or none for a file
\* that holds an object without them).
ReadVolDatas ==
    {[err |-> "read", data |-> CHOOSE vd \in VolDatas : vd.VolumeName = ""],
     [err |-> "json", data |-> CHOOSE vd \in VolDatas : vd.VolumeName = ""]}
    \cup {[err |-> "nil", data |-> vd] : vd \in VolDatas}

\* An entry of a CSI directory: whether it is a directory, and its
\* vol_data.json.
VolDirs == {[isDir |-> d, volData |-> r] : d \in BOOLEAN, r \in ReadVolDatas}

VolFile == CHOOSE e \in VolDirs : ~e.isDir /\ e.volData.err = "read"
VolUnreadable == CHOOSE e \in VolDirs : e.isDir /\ e.volData.err = "read"
VolMalformed == CHOOSE e \in VolDirs : e.isDir /\ e.volData.err = "json"
VolFull == CHOOSE e \in VolDirs :
              e.isDir /\ e.volData.err = "nil" /\ e.volData.data.VolumeName # ""
VolEmpty == CHOOSE e \in VolDirs :
              e.isDir /\ e.volData.err = "nil" /\ e.volData.data.VolumeName = ""

\* What os.ReadDir(csiDir) returns when it returns no error.
CSIDirListings ==
    {<<>>, <<VolFull>>, <<VolFile>>, <<VolUnreadable, VolFull>>,
     <<VolFull, VolMalformed>>, <<VolFull, VolEmpty>>,
     <<VolMalformed, VolUnreadable>>}

\* An entry of the pods directory: whether it is a directory, what
\* os.Stat(volumesDir) returns, whether os.ReadDir(csiDir) fails, and the
\* entries it returns.
PodDirs ==
    {[isDir |-> FALSE, stat |-> "nil", csiErr |-> TRUE, vols |-> <<>>],
     [isDir |-> TRUE, stat |-> "notexist", csiErr |-> TRUE, vols |-> <<>>],
     [isDir |-> TRUE, stat |-> "error", csiErr |-> TRUE, vols |-> <<>>],
     [isDir |-> TRUE, stat |-> "nil", csiErr |-> TRUE, vols |-> <<>>]}
    \cup {[isDir |-> TRUE, stat |-> "nil", csiErr |-> FALSE, vols |-> l] :
            l \in CSIDirListings}

\* mounts.GetDeviceName(device): the name ResolveDevice gives.
GetDeviceName(device) == (CHOOSE m \in MountDevices : m.Device = device).Name

\* The mount tables: in every pod the volumes at the positions of ns are
\* mounted, the first from /dev/sdb and the second from a link to /dev/sda.
MountTable(ns) ==
    [k \in 1..(MaxPodDirs * Len(ns)) |->
        LET n == ns[((k - 1) % Len(ns)) + 1]
        IN  [Device |-> IF n = 1 THEN "/dev/sdb" ELSE "/dev/disk/by-id/vol1",
             MountPoint |-> MountPathOf(PodUIDAt(((k - 1) \div Len(ns)) + 1), VolNameAt(n)),
             FSType |-> "ext4", Options |-> "rw"]]

MountTables == {<<>>, MountTable(<<1>>), MountTable(<<2>>), MountTable(<<1, 2>>)}

\* The kubelet directories: the mount table or the pods directory may be
\* unreadable.
Kubelets ==
    {[mountsErr |-> e[1], mounts |-> t, podsErr |-> e[2], pods |-> ps] :
        e \in {<<FALSE, FALSE>>, <<TRUE, FALSE>>, <<FALSE, TRUE>>},
        t \in MountTables,
        ps \in UNION {[1..n -> PodDirs] : n \in 0..MaxPodDirs}}

\* mounts.FindMountByPath(ms, p) as a function: the index of the entry
\* returned, 0 for nil.
RECURSIVE FindMountFrom(_, _, _, _)
FindMountFrom(ms, p, k, b) ==
    IF k > Len(ms) THEN b
    ELSE FindMountFrom(ms, p, k + 1,
            IF IsBetter(ms[k], p, IF b = 0 THEN 0 ELSE Len(ms[b].MountPoint))
            THEN k ELSE b)

FindMountByPath(ms, p) == FindMountFrom(ms, p, 1, 0)

InitCSI ==
    /\ kubelet \in Kubelets
    /\ kpc = "parse"
    /\ knext = 1
    /\ vnext = 1
    /\ inner = <<>>
    /\ found = <<>>
    /\ kerr = "unset"
    /\ DiscoverIdle
    /\ MergeIdle
    /\ FindIdle
    /\ StatsIdle
    /\ ResolveIdle
    /\ DeviceIDIdle
    /\ CollectIdle

\* mounts.Parse fails: return nil, err.
CSIParseFails ==
    /\ kpc = "parse"
    /\ kubelet.mountsErr
    /\ kerr' = "error"
    /\ kpc' = "returned"
    /\ UNCHANGED <<kubelet, knext, vnext, inner, found>>
    /\ UNCHANGED besidesCSI

\* mounts.Parse returns the table.
CSIParse ==
    /\ kpc = "parse"
    /\ ~kubelet.mountsErr
    /\ kpc' = "readdir"
    /\ UNCHANGED <<kubelet, knext, vnext, inner, found, kerr>>
    /\ UNCHANGED besidesCSI

\* os.ReadDir(podsDir) fails: return nil, err.
CSIReadDirFails ==
    /\ kpc = "readdir"
    /\ kubelet.podsErr
    /\ kerr' = "error"
    /\ kpc' = "returned"
    /\ UNCHANGED <<kubelet, knext, vnext, inner, found>>
    /\ UNCHANGED besidesCSI

\* os.ReadDir(podsDir) returns the entries.
CSIReadDir ==
    /\ kpc = "readdir"
    /\ ~kubelet.podsErr
    /\ kpc' = "pods"
    /\ UNCHANGED <<kubelet, knext, vnext, inner, found, kerr>>
    /\ UNCHANGED besidesCSI

\* The loop over podDirs: an entry that is no directory, or whose volumes
\* directory does not exist: continue.
PodSkip ==
    /\ kpc = "pods"
    /\ knext <= Len(kubelet.pods)
    /\ ~kubelet.pods[knext].isDir \/ kubelet.pods[knext].stat = "notexist"
    /\ knext' = knext + 1
    /\ UNCHANGED <<kubelet, kpc, vnext, inner, found, kerr>>
    /\ UNCHANGED besidesCSI

\* The error of discoverCSIVolumes returned by Discover.
PodCSIUnreadableReturns ==
    /\ kpc = "pods"
    /\ knext <= Len(kubelet.pods)
    /\ kubelet.pods[knext].isDir
    /\ kubelet.pods[knext].stat # "notexist"
    /\ kubelet.pods[knext].csiErr
    /\ found' = <<>>
    /\ kerr' = "error"
    /\ kpc' = "returned"
    /\ UNCHANGED <<kubelet, knext, vnext, inner>>
    /\ UNCHANGED besidesCSI

\* discoverCSIVolumes: os.ReadDir(csiDir) fails and it returns the error,
\* which Discover drops; discoverProjectedVolumes returns nothing.
PodCSIUnreadable ==
    /\ kpc = "pods"
    /\ knext <= Len(kubelet.pods)
    /\ kubelet.pods[knext].isDir
    /\ kubelet.pods[knext].stat # "notexist"
    /\ kubelet.pods[knext].csiErr
    /\ knext' = knext + 1
    /\ UNCHANGED <<kubelet, kpc, vnext, inner, found, kerr>>
    /\ UNCHANGED besidesCSI

\* discoverCSIVolumes: os.ReadDir(csiDir) returns the entries.
PodCSIRead ==
    /\ kpc = "pods"
    /\ knext <= Len(kubelet.pods)
    /\ kubelet.pods[knext].isDir
    /\ kubelet.pods[knext].stat # "notexist"
    /\ ~kubelet.pods[knext].csiErr
    /\ kpc' = "vols"
    /\ vnext' = 1
    /\ inner' = <<>>
    /\ UNCHANGED <<kubelet, knext, found, kerr>>
    /\ UNCHANGED besidesCSI

\* The loop over volDirs: an entry that is no directory: continue.
VolSkip ==
    /\ kpc = "vols"
    /\ vnext <= Len(kubelet.pods[knext].vols)
    /\ ~kubelet.pods[knext].vols[vnext].isDir
    /\ vnext' = vnext + 1
    /\ UNCHANGED <<kubelet, kpc, knext, inner, found, kerr>>
    /\ UNCHANGED besidesCSI

\* The loop over volDirs: readVolData fails: continue.
VolDataFails ==
    /\ kpc = "vols"
    /\ vnext <= Len(kubelet.pods[knext].vols)
    /\ kubelet.pods[knext].vols[vnext].isDir
    /\ kubelet.pods[knext].vols[vnext].volData.err # "nil"
    /\ vnext' = vnext + 1
    /\ UNCHANGED <<kubelet, kpc, knext, inner, found, kerr>>
    /\ UNCHANGED besidesCSI

\* The loop over volDirs: FindMountByPath returns nil: continue.
VolNotMounted ==
    /\ kpc = "vols"
    /\ vnext <= Len(kubelet.pods[knext].vols)
    /\ kubelet.pods[knext].vols[vnext].isDir
    /\ kubelet.pods[knext].vols[vnext].volData.err = "nil"
    /\ FindMountByPath(kubelet.mounts, MountPathOf(PodUIDAt(knext), VolNameAt(vnext))) = 0
    /\ vnext' = vnext + 1
    /\ UNCHANGED <<kubelet, kpc, knext, inner, found, kerr>>
    /\ UNCHANGED besidesCSI

\* The record of lines 115-129 for the volume directory at position n of
\* the pod directory at position k.
CSIRecord(k, n) ==
    LET mountPath == MountPathOf(PodUIDAt(k), VolNameAt(n))
        mount == kubelet.mounts[FindMountByPath(kubelet.mounts, mountPath)]
    IN  CSIVolumeInfo(kubelet.pods[k].vols[n].volData.data, PodUIDAt(k),
                      [Device |-> mount.Device, Name |-> GetDeviceName(mount.Device)],
                      mountPath)

\* The loop over volDirs: the record is appended.
VolAppend ==
    /\ kpc = "vols"
    /\ vnext <= Len(kubelet.pods[knext].vols)
    /\ kubelet.pods[knext].vols[vnext].isDir
    /\ kubelet.pods[knext].vols[vnext].volData.err = "nil"
    /\ FindMountByPath(kubelet.mounts, MountPathOf(PodUIDAt(knext), VolNameAt(vnext))) # 0
    /\ inner' = Append(inner, CSIRecord(knext, vnext))
    /\ vnext' = vnext + 1
    /\ UNCHANGED <<kubelet, kpc, knext, found, kerr>>
    /\ UNCHANGED besidesCSI

\* discoverCSIVolumes returns its volumes and Discover appends them.
PodCSIReturn ==
    /\ kpc = "vols"
    /\ vnext > Len(kubelet.pods[knext].vols)
    /\ found' = found \o inner
    /\ inner' = <<>>
    /\ vnext' = 1
    /\ knext' = knext + 1
    /\ kpc' = "pods"
    /\ UNCHANGED <<kubelet, kerr>>
    /\ UNCHANGED besidesCSI

\* return volumes, nil
CSIReturn ==
    /\ kpc = "pods"
    /\ knext > Len(kubelet.pods)
    /\ kerr' = "nil"
    /\ kpc' = "returned"
    /\ UNCHANGED <<kubelet, knext, vnext, inner, found>>
    /\ UNCHANGED besidesCSI

NextCSI ==
    \/ CSIParseFails
    \/ CSIParse
    \/ CSIReadDirFails
    \/ CSIReadDir
    \/ PodSkip
    \/ PodCSIUnreadable
    \/ PodCSIRead
    \/ VolSkip
    \/ VolDataFails
    \/ VolNotMounted
    \/ VolAppend
    \/ PodCSIReturn
    \/ CSIReturn

SpecCSI == InitCSI /\ [][NextCSI]_vars

\* ================================================================ claims

Returned == pc \in {"returned", "resolve", "done"}

\* The fields on which record a and record b hold different non-empty values.
Conflicts(a, b) == {f \in Fields : a[f] # "" /\ b[f] # "" /\ a[f] # b[f]}

\* C1 as stated: a step of the discovery pass never changes a field of a
\* canonical entry that was already non-empty, whatever the field.
C1_NoFieldOverwritten ==
    [][\A k \in DOMAIN seen : \A f \in Fields :
          seen[k][f] # "" => seen'[k][f] = seen[k][f]]_vars

\* C1 as amended: a step of the discovery pass never changes a non-empty field
\* of a canonical entry, except the PVC name while it equals the entry's PV
\* name (the placeholder).
C1_NoRealFieldOverwritten ==
    [][\A k \in DOMAIN seen : \A f \in Fields :
          (seen[k][f] # "" /\ ~(f = "PVCName" /\ seen[k].PVCName = seen[k].PVName))
              => seen'[k][f] = seen[k][f]]_vars

\* A record was just merged into an entry that held another non-empty value
\* for one of its fields, and the entry still holds its own.
C1_Witness ==
    /\ step = "merge"
    /\ \E f \in Conflicts(seen[v.DeviceName], v) : f # "DeviceID"

\* C2: records with the same non-empty device-id are reconciled into one
\* canonical entry, so no two returned records share a non-empty device-id.
C2_SameDeviceIDOneEntry ==
    Returned =>
        \A a, b \in 1..Len(result) :
            (result[a].DeviceID # "" /\ result[a].DeviceID = result[b].DeviceID)
                => a = b

\* C3: a record is left out exactly when it has neither a device-id nor a
\* device name; a record that has one is kept under its key.
C3_DroppedIffUnkeyable ==
    /\ step = "skip" => MergeKey(v) = ""
    /\ step \in {"insert", "merge"} =>
          /\ MergeKey(v) # ""
          /\ \E k \in DOMAIN seen : MergeKey(seen[k]) = MergeKey(v)

\* C4: no two returned records have the same merge key, and there are as many
\* returned records as distinct merge keys among the keyable records yielded.
C4_Deduplicated ==
    Returned =>
        /\ \A a, b \in 1..Len(result) :
              MergeKey(result[a]) = MergeKey(result[b]) => a = b
        /\ Len(result) = Cardinality(yieldedKeys \ {""})

\* C5: a merge fills every field that is empty on the canonical entry and
\* non-empty on the new record with the new record's value: the device-id,
\* the PV name and every plain field (the PVC name has its own rule, C6).
C5_FillInComplete ==
    [][step' = "merge" =>
          \A f \in Fields \ {"PVCName"} :
              (seen[v'.DeviceName][f] = "" /\ v'[f] # "")
                  => seen'[v'.DeviceName][f] = v'[f]]_vars

C7_GracefulDegradation ==
    Returned =>
        /\ err = "nil"
        /\ consulted = 1..Len(discoverers)
        /\ \A name \in yieldedNames \ {""} :
              \E p \in 1..Len(result) : result[p].DeviceName = name

\* The first producer's Discover() failed, the second was consulted all the
\* same and its record is in the result.
C7_Witness ==
    /\ Returned
    /\ 1 \in failed
    /\ 2 \in working
    /\ Len(result) > 0

\* C8 as stated: after a merge of a record from a later producer, every field
\* on which it conflicts with the first producer's record holds the first
\* producer's value.
C8_FirstProducerWins ==
    (step = "merge" /\ first[v.DeviceName].d < i) =>
        \A f \in Conflicts(first[v.DeviceName].v, v) :
            seen[v.DeviceName][f] = first[v.DeviceName].v[f]

\* C8 as amended: the same, except for the PVC name when the first producer's
\* PVC name is its PV name (the placeholder) or comes with no PV name.
C8_FirstProducerWinsButPlaceholder ==
    (step = "merge" /\ first[v.DeviceName].d < i) =>
        \A f \in Conflicts(first[v.DeviceName].v, v) :
            ~(f = "PVCName"
              /\ first[v.DeviceName].v.PVName \in {"", first[v.DeviceName].v.PVCName})
                => seen[v.DeviceName][f] = first[v.DeviceName].v[f]

\* The second producer's record conflicts with the first producer's on the
\* resolved device path, and the entry holds the first producer's path.
C8_Witness ==
    /\ step = "merge"
    /\ first[v.DeviceName].d = 1
    /\ i = 2
    /\ discoverers[1] # discoverers[2]
    /\ "DevicePath" \in Conflicts(first[v.DeviceName].v, v)
    /\ seen[v.DeviceName].DevicePath = first[v.DeviceName].v.DevicePath

\* C9: once the filesystem-scan producer and the API-query producer have both
\* yielded a record for a device, the entry's PVC name, PVC namespace and PV
\* name are those of the API-query producer's record, in either order.
IdentityOf(r) == <<r.PVCName, r.PVCNamespace, r.PVName>>

C9_APIIdentityWins ==
    step = "merge" =>
        /\ (discoverers[first[v.DeviceName].d] = DiscoveryCSI
            /\ discoverers[i] = DiscoveryK8sAPI)
              => IdentityOf(seen[v.DeviceName]) = IdentityOf(v)
        /\ (discoverers[first[v.DeviceName].d] = DiscoveryK8sAPI
            /\ discoverers[i] = DiscoveryCSI)
              => IdentityOf(seen[v.DeviceName]) = IdentityOf(first[v.DeviceName].v)

\* C10: a scrape in which no producer worked ends with an empty volume set
\* and scrape success 0 for the discovery collector on the channel.
C10_TotalFailureSignalled ==
    (pc \in {"resolve", "done"} /\ working = {}) =>
        /\ result = <<>>
        /\ \E p \in 1..Len(ch) :
              /\ ch[p].desc = "scrape_success"
              /\ ch[p].collector = "discovery"
              /\ ch[p].value = 0

\* The entries of the table whose mount point is a prefix of the path.
Containing == {k \in 1..Len(mounts) : HasPrefix(path, mounts[k].MountPoint)}

\* C11: FindMountByPath returns nil when no mount point is a prefix of the
\* path, and else the first entry in table order among those whose mount
\* point is the longest prefix of the path.
C11_LongestPrefixFirstWins ==
    fpc = "returned" =>
        IF Containing = {}
        THEN best = 0
        ELSE /\ best \in Containing
             /\ \A k \in Containing :
                   /\ Len(mounts[k].MountPoint) <= Len(mounts[best].MountPoint)
                   /\ Len(mounts[k].MountPoint) = Len(mounts[best].MountPoint)
                         => best <= k

\* /a/b/c was looked up in a table that lists /a, then /a/b, then /a/b again
\* for another device, and the first /a/b entry was returned.
C11_Witness ==
    /\ fpc = "returned"
    /\ path = <<"/", "a", "/", "b", "/", "c">>
    /\ Len(mounts) = 3
    /\ mounts[1].MountPoint = <<"/", "a">>
    /\ mounts[2].MountPoint = <<"/", "a", "/", "b">>
    /\ mounts[3].MountPoint = <<"/", "a", "/", "b">>
    /\ mounts[3].Device # mounts[2].Device
    /\ best = 2

\* The lines of the table that are stats lines: at least 14 fields, an
\* integer major and minor, and a uint64 in every later field.
ValidLine(k) ==
    LET f == lines[k].fields
    IN  /\ Len(f) >= 14
        /\ ~Atoi(f[1]).err
        /\ ~Atoi(f[2]).err
        /\ \A p \in 4..Len(f) : ~ParseUint(f[p]).err

\* The "major:minor" string of a line, from the text of its first two fields.
LineDeviceID(k) == lines[k].fields[1] \o <<":">> \o lines[k].fields[2]

\* No later valid line has the name, or the device-id, of line k.
LastOfName(k) ==
    \A l \in (k + 1)..Len(lines) :
        ValidLine(l) => lines[l].fields[3] # lines[k].fields[3]
LastOfDeviceID(k) ==
    \A l \in (k + 1)..Len(lines) : ValidLine(l) => LineDeviceID(l) # LineDeviceID(k)

\* n * 512 as a number: the low 64 bits and the bits above them.
Times512(n) == Append(MulAdd64(n, 512, 0).low, MulAdd64(n, 512, 0).carry)

\* C12: after Parse has returned an index, every valid line's record is
\* retrievable under the line's name and under the line's "major:minor" (the
\* last line's record when several lines share one), and the record's read
\* and write byte totals are its sector counts times 512.
C12_IndexedBothWaysBytesTimes512 ==
    (spc = "returned" /\ serr = "nil") =>
        \A k \in 1..Len(lines) : ValidLine(k) =>
            /\ lines[k].fields[3] \in DOMAIN ByName
            /\ LineDeviceID(k) \in DOMAIN ByDeviceID
            /\ LastOfName(k) =>
                  /\ ByName[lines[k].fields[3]].DeviceName = lines[k].fields[3]
                  /\ ByName[lines[k].fields[3]].SectorsRead
                         = ParseUint(lines[k].fields[6]).val
                  /\ ByName[lines[k].fields[3]].SectorsWritten
                         = ParseUint(lines[k].fields[10]).val
            /\ (LastOfName(k) /\ LastOfDeviceID(k)) =>
                  ByDeviceID[LineDeviceID(k)] = ByName[lines[k].fields[3]]
            /\ \A s \in {ByName[lines[k].fields[3]], ByDeviceID[LineDeviceID(k)]} :
                  /\ Append(ReadBytesTotal(s), 0) = Times512(s.SectorsRead)
                  /\ Append(WriteBytesTotal(s), 0) = Times512(s.SectorsWritten)

\* C13: unless the table cannot be opened or read, Parse returns no error,
\* whatever the lines hold; it has then looked at every line, every valid
\* line has its record, and there are at most as many records as lines.
C13_NoLineAbortsParse ==
    (spc = "returned" /\ serr \notin {"open diskstats", "scan diskstats: read"}) =>
        /\ serr = "nil"
        /\ lnext = Len(lines) + 1
        /\ \A k \in 1..Len(lines) : ValidLine(k) => lines[k].fields[3] \in DOMAIN ByName
        /\ Cardinality(DOMAIN ByName) <= Len(lines)
        /\ Cardinality(DOMAIN ByDeviceID) <= Len(lines)

\* The last line scanned so far that is valid and has the name.
LastScanned(name) ==
    CHOOSE k \in 1..(lnext - 1) :
        /\ ValidLine(k) /\ lines[k].fields[3] = name
        /\ \A l \in (k + 1)..(lnext - 1) :
              ValidLine(l) => lines[l].fields[3] # name

\* The value of field p of a line if the line has at least n fields, else 0.
FieldIfAtLeast(f, p, n) == IF Len(f) >= n THEN ParseUint(f[p]).val ELSE Zero64

\* C14: every line scanned that has 14 fields or more, all of them numbers,
\* is accepted; its record's discard counters are fields 15 to 18 when the
\* line has 18 fields or more and zero otherwise, and its flush counters are
\* fields 19 and 20 when the line has 20 fields or more and zero otherwise.
C14_SchemaEvolutionTolerated ==
    serr \in {"unset", "nil"} =>
        /\ \A k \in 1..(lnext - 1) : ValidLine(k) => lines[k].fields[3] \in DOMAIN ByName
        /\ \A name \in DOMAIN ByName :
              LET f == lines[LastScanned(name)].fields
                  s == ByName[name]
              IN  /\ s.DiscardsCompleted = FieldIfAtLeast(f, 15, 18)
                  /\ s.DiscardsMerged = FieldIfAtLeast(f, 16, 18)
                  /\ s.SectorsDiscarded = FieldIfAtLeast(f, 17, 18)
                  /\ s.DiscardTimeMs = FieldIfAtLeast(f, 18, 18)
                  /\ s.FlushCompleted = FieldIfAtLeast(f, 19, 20)
                  /\ s.FlushTimeMs = FieldIfAtLeast(f, 20, 20)

\* Parse has returned an index for a table of an 18-field line and a 14-field
\* line: the first has its discard counters and no flush counters, the
\* second has neither.
C14_Witness ==
    /\ spc = "returned"
    /\ serr = "nil"
    /\ Len(lines) = 2
    /\ Len(lines[1].fields) = 18
    /\ Len(lines[2].fields) = 14
    /\ Sda \in DOMAIN ByName
    /\ Sdb \in DOMAIN ByName
    /\ ByName[Sda].DiscardTimeMs # Zero64
    /\ ByName[Sda].FlushCompleted = Zero64
    /\ ByName[Sdb].DiscardsCompleted = Zero64

\* C15: the loop of evalSymlinks never runs more than 255 times and
\* ResolveDevice returns for every input; on a cyclic chain it returns, after
\* 255 hops and "too many symlinks", the path it was given and that path's
\* last part.
C15_ResolveTerminates ==
    /\ [](hops <= MaxHops)
    /\ <>(rpc = "returned")
    /\ []((rpc = "returned" /\ fsys.end = "cycle" /\ eerr # "readlink") =>
              /\ hops = MaxHops
              /\ eerr = "too many symlinks"
              /\ resolvedPath = devicePath
              /\ deviceName = <<FirstLink>>)

\* ResolveDevice has returned from a cycle of two links.
C15_Witness ==
    /\ rpc = "returned"
    /\ fsys.end = "cycle"
    /\ fsys.links = 2
    /\ hops = MaxHops
    /\ resolvedPath = devicePath
    /\ deviceName = <<FirstLink>>

\* C16: for a chain of at most 255 links from devicePath to a file, links
\* that can all be read, resolvedPath is a path of that file, whatever the
\* style of the targets, and deviceName is the name of the file.
C16_ChainFullyFollowed ==
    (rpc = "returned" /\ fsys.end = "file" /\ fsys.links <= MaxHops
                      /\ devicePath = LinkPath(0) /\ eerr # "readlink") =>
        /\ Lstat(fsys, resolvedPath) = "file"
        /\ Walk(resolvedPath, 1, <<>>) = <<Dev, FirstLink + fsys.links>>
        /\ deviceName = <<FirstLink + fsys.links>>

\* C17: for a device with a major in 0..4095 and a minor in 0..2^20-1,
\* GetDeviceID returns the decimal of that major, a colon and the decimal of
\* that minor: decoding stat.Dev gives back the pair the kernel encoded.
C17_DeviceIDRoundTrip ==
    (gpc = "returned" /\ gerr = "nil" /\ stMajor <= 4095 /\ stMinor <= 1048575) =>
        gid = Sprintf_d(stMajor) \o <<":">> \o Sprintf_d(stMinor)

\* GetDeviceID has returned "259:65536": a minor that needs the bits above
\* bit 20 of stat.Dev.
C17_Witness ==
    /\ gpc = "returned"
    /\ stMajor = 259
    /\ stMinor = 65536
    /\ gid = <<"2", "5", "9", ":", "6", "5", "5", "3", "6">>

\* The goroutines of sub-collector c have all finished, those it never
\* started aside.
TasksFinished(c) == \A r \in 1..Len(volumes) : tpc[c][r].st \in {"none", "done"}

\* C18: when Collect has returned, the goroutine of every sub-collector and
\* every goroutine of every Update has finished and both kinds of WaitGroup
\* are at zero; an Update that has returned has no goroutine left; and no
\* metric is sent once Collect has returned.
C18_ScrapeBarrier ==
    /\ [](cpc = "returned" =>
             \A c \in 1..Len(Collectors) :
                 upc[c] = "done" /\ TasksFinished(c) /\ uwg[c] = 0 /\ wg = 0)
    /\ [](\A c \in 1..Len(Collectors) :
             upc[c] \in {"duration", "success", "done"} => TasksFinished(c))
    /\ [][cpc = "returned" => sent' = sent]_vars

\* Collect has returned from a scrape of two records in which both
\* sub-collectors ran a goroutine for each record, and every goroutine sent
\* all its metrics.
C18_Witness ==
    /\ cpc = "returned"
    /\ Len(volumes) = 2
    /\ \A c \in 1..Len(Collectors) : \A r \in 1..2 :
          tpc[c][r].st = "done" /\ tpc[c][r].n = Len(MetricSet(Collectors[c]))

\* The metrics of set c with the labels of record r.
MetricsOf(c, r) ==
    {SentMetric(MetricSet(Collectors[c])[n], Collectors[c], 0, volumeLabels(volumes[r])) :
        n \in 1..Len(MetricSet(Collectors[c]))}

\* C19: when Collect has returned, every sub-collector has sent its duration
\* and one success value, 0 if and only if its Update returned an error; the
\* capacity sub-collector has not failed and has sent the metrics of every
\* record with a mount path whose capacity could be read, whether or not the
\* stats table could be read by the diskstats sub-collector or by the
\* backfill; and a diskstats sub-collector that did not fail has sent the
\* metrics of every record whose device the stats table has.
C19_ScrapeNotAborted ==
    cpc = "returned" =>
        /\ \A c \in 1..Len(Collectors) :
              /\ SentMetric("scrape_duration_seconds", Collectors[c], 0, <<>>) \in BagToSet(sent)
              /\ SentMetric("scrape_success", Collectors[c],
                            IF uerr[c] = "error" THEN 0 ELSE 1, <<>>) \in BagToSet(sent)
              /\ SentMetric("scrape_success", Collectors[c],
                            IF uerr[c] = "error" THEN 1 ELSE 0, <<>>) \notin BagToSet(sent)
              /\ uerr[c] = "error" =>
                    Collectors[c] = "diskstats" /\ \A r \in 1..Len(volumes) : tpc[c][r] = NoTask
              /\ uerr[c] = "nil" =>
                    \A r \in 1..Len(volumes) :
                        Selects(c, volumes[r]) =>
                            \/ MetricsOf(c, r) \subseteq BagToSet(sent)
                            \/ Collectors[c] = "capacity" /\ tpc[c][r].n = 0
        /\ \A c \in 1..Len(Collectors) : Collectors[c] = "capacity" => uerr[c] = "nil"

\* Collect has returned from a scrape in which the backfill and the
\* diskstats sub-collector could not read the stats table, and the capacity
\* sub-collector has sent the metrics of two records.
C19_Witness ==
    /\ cpc = "returned"
    /\ bpc = "failed"
    /\ uerr[1] = "error"
    /\ uerr[2] = "nil"
    /\ Len(volumes) = 2
    /\ MetricsOf(2, 1) \cup MetricsOf(2, 2) \subseteq BagToSet(sent)
    /\ SentMetric("scrape_success", "diskstats", 0, <<>>) \in BagToSet(sent)
    /\ SentMetric("scrape_success", "capacity", 1, <<>>) \in BagToSet(sent)

\* A goroutine of a sub-collector or of an Update has been started.
FannedOut ==
    \E c \in 1..Len(Collectors) :
        upc[c] # "none" \/ \E r \in 1..Len(volumes) : tpc[c][r].st # "none"

\* C20: a record changes only while Collect is before its fan-out, with no
\* goroutine started, and the labels a goroutine has read are those of the
\* record as it is.
C20_RecordsReadOnlyInFanOut ==
    /\ [][volumes' # volumes => (cpc = "resolve" /\ ~FannedOut)]_vars
    /\ [](\A c \in 1..Len(Collectors) : \A r \in 1..Len(volumes) :
             tpc[c][r].labels # <<>> => tpc[c][r].labels = volumeLabels(volumes[r]))

\* The backfill has set the device name of a record from its device-id, and
\* the diskstats goroutine for that record has read it and sent its metrics.
C20_Witness ==
    \E r \in 1..Len(volumes) :
        /\ volumes[r].CSIDevicePath = "/dev/disk/by-id/vol2"
        /\ volumes[r].DeviceName = "sdb"
        /\ tpc[1][r].st = "done"
        /\ tpc[1][r].labels[1] = "sdb"

\* An entry of calls after which the pass is done with the producer: its
\* Available() returned false, its Discover() failed, or the loop over its
\* slice has ended.
Processed(c) ==
    \/ c.op = "Available" /\ c.ret = "false"
    \/ c.op = "Discover" /\ c.ret = "error"
    \/ c.op = "range"

\* C21: the producers are called one after the other in the configured
\* order: the first call is on the first producer, a call on another producer
\* than the call before is on the next one and comes after the one before has
\* been processed, and the records of a slice are ranged over between the
\* return of Discover() and the next call; Discover() is called only right
\* after Available() of the same producer returned true, and at most once on
\* each producer.
C21_SequentialInPriorityOrder ==
    /\ calls # <<>> => calls[1].d = 1
    /\ \A q \in 2..Len(calls) :
          \/ calls[q].d = calls[q - 1].d /\ ~Processed(calls[q - 1])
          \/ calls[q].d = calls[q - 1].d + 1 /\ Processed(calls[q - 1])
    /\ pc = "range" <=>
          /\ calls # <<>>
          /\ calls[Len(calls)] = Call(i, "Discover", "volumes")
    /\ step \in {"skip", "insert", "merge"} => pc = "range"
    /\ \A q \in 1..Len(calls) :
          calls[q].op = "Discover" =>
              /\ q > 1
              /\ calls[q - 1] = Call(calls[q].d, "Available", "true")
    /\ \A p, q \in 1..Len(calls) :
          (calls[p].op = "Discover" /\ calls[q].op = "Discover"
           /\ calls[p].d = calls[q].d) => p = q

\* The first producer was not available, the second was, its Discover()
\* returned a slice whose records were ranged over to the end, and the pass
\* has returned.
C21_Witness ==
    /\ Returned
    /\ Len(calls) = 4
    /\ calls[1] = Call(1, "Available", "false")
    /\ calls[2] = Call(2, "Available", "true")
    /\ calls[3] = Call(2, "Discover", "volumes")
    /\ calls[4] = Call(2, "range", "end")
    /\ Len(result) > 0

\* The stats records of the index whose device-id is that of record r as
\* Discover returned it.
IndexedAt(r) ==
    {id \in DOMAIN ProcDiskstats.ByDeviceID : id = result[r].DeviceID}

\* C22: the backfill changes no field but the device name of any record;
\* when the stats table could not be parsed it changes no record; and when it
\* is done, the device name of a record with a device-id the index has is
\* the name of the stats record, and that of any other record is as
\* Discover returned it.
C22_BackfillFrame ==
    /\ Len(volumes) = Len(result)
    /\ \A r \in 1..Len(volumes) : \A f \in Fields \ {"DeviceName"} :
          volumes[r][f] = result[r][f]
    /\ bpc \in {"parse", "failed"} => volumes = result
    /\ bpc = "done" =>
          \A r \in 1..Len(volumes) :
              IF result[r].DeviceID # "" /\ IndexedAt(r) # {}
              THEN \A id \in IndexedAt(r) :
                      volumes[r].DeviceName = ProcDiskstats.ByDeviceID[id].DeviceName
              ELSE volumes[r].DeviceName = result[r].DeviceName

\* The backfill is done: it has renamed a record whose device-id the index
\* has, and kept the name of a record whose device-id the index has not.
C22_Witness ==
    /\ bpc = "done"
    /\ \E r \in 1..Len(volumes) :
          /\ IndexedAt(r) # {}
          /\ volumes[r].DeviceName # result[r].DeviceName
    /\ \E r \in 1..Len(volumes) :
          /\ result[r].DeviceID # ""
          /\ IndexedAt(r) = {}
          /\ volumes[r].DeviceName = result[r].DeviceName

\* The path p is the mount point mp or lies under it: mp followed by "/" is
\* a prefix of p, or mp is the root and p starts with it.
Under(p, mp) ==
    \/ p = mp
    \/ HasPrefix(p, mp \o <<"/">>)
    \/ mp = <<"/">> /\ HasPrefix(p, mp)

\* C24: the entry FindMountByPath returns contains the path: the path is its
\* mount point or lies under it at a path-component boundary.
C24_ReturnedMountContainsPath ==
    (fpc = "returned" /\ best # 0) => Under(path, mounts[best].MountPoint)

\* The goroutines of sub-collector c that have read the labels of their record.
Labelled(c) == {r \in 1..Len(volumes) : tpc[c][r].st \in {"send", "done"} /\ tpc[c][r].n > 0}

\* C25: once Collect hands the records to the sub-collectors, no two of them
\* have the same device name, and no two goroutines of one sub-collector send
\* their metrics with the same label values.
C25_DeviceNamesDistinctAfterBackfill ==
    cpc \in {"go", "wait", "returned"} =>
        /\ \A a, b \in 1..Len(volumes) :
              volumes[a].DeviceName = volumes[b].DeviceName => a = b
        /\ \A c \in 1..Len(Collectors) : \A a, b \in Labelled(c) :
              tpc[c][a].labels = tpc[c][b].labels => a = b

\* How many times sub-collector c has sent its duration, and its success
\* value (0 or 1).
DurationsOf(c) == CopiesIn(SentMetric("scrape_duration_seconds", Collectors[c], 0, <<>>), sent)
SuccessesOf(c, value) == CopiesIn(SentMetric("scrape_success", Collectors[c], value, <<>>), sent)

\* The metrics of the given name on ch, by their position.
OnCh(desc) == {p \in 1..Len(ch) : ch[p].desc = desc}

\* C26: once a sub-collector runs, Collect has sent the duration of discovery
\* and then its success value, each once, and the number of volumes, once
\* and equal to the number of records Discover returned; a sub-collector
\* never sends more than one duration or more than one success value; and
\* once Collect has returned, each sub-collector has sent one duration and
\* one success value, 1 if its Update returned no error and 0 otherwise.
C26_HealthSignals ==
    /\ FannedOut =>
          /\ OnCh("scrape_duration_seconds") = {1}
          /\ OnCh("scrape_success") = {2}
          /\ OnCh("volumes_discovered") = {3}
          /\ ch[1].collector = "discovery"
          /\ ch[2].collector = "discovery"
          /\ ch[2].value = 1
          /\ ch[3].value = Len(result)
          /\ ch[3].value = Len(volumes)
    /\ \A c \in 1..Len(Collectors) :
          /\ DurationsOf(c) <= 1
          /\ SuccessesOf(c, 0) + SuccessesOf(c, 1) <= 1
    /\ cpc = "returned" =>
          \A c \in 1..Len(Collectors) :
              /\ DurationsOf(c) = 1
              /\ SuccessesOf(c, IF uerr[c] = "nil" THEN 1 ELSE 0) = 1
              /\ SuccessesOf(c, IF uerr[c] = "nil" THEN 0 ELSE 1) = 0

\* Collect has returned from a scrape of two records in which the Update of
\* the first sub-collector failed and that of the second did not: success 0
\* and success 1 are among the metrics sent.
C26_Witness ==
    /\ cpc = "returned"
    /\ Len(result) = 2
    /\ Len(ch) = 3
    /\ uerr[1] = "error"
    /\ uerr[2] = "nil"
    /\ SentMetric("scrape_success", Collectors[1], 0, <<>>) \in BagToSet(sent)
    /\ SentMetric("scrape_success", Collectors[2], 1, <<>>) \in BagToSet(sent)

\* The volume directories without a soft failure, as pairs of the position of
\* the pod directory and the position of the volume directory in it: both are
\* directories, the volumes directory exists, the CSI directory and
\* vol_data.json can be read, and a mount point of the table is a prefix of
\* the volume's mount path.
SoundVolumes ==
    {g \in (1..Len(kubelet.pods)) \X (1..Len(VolNames)) :
        /\ kubelet.pods[g[1]].isDir
        /\ kubelet.pods[g[1]].stat # "notexist"
        /\ ~kubelet.pods[g[1]].csiErr
        /\ g[2] <= Len(kubelet.pods[g[1]].vols)
        /\ kubelet.pods[g[1]].vols[g[2]].isDir
        /\ kubelet.pods[g[1]].vols[g[2]].volData.err = "nil"
        /\ \E m \in 1..Len(kubelet.mounts) :
              HasPrefix(MountPathOf(PodUIDAt(g[1]), VolNameAt(g[2])),
                        kubelet.mounts[m].MountPoint)}

\* The sound volume directories up to g, in the order of the directories.
UpTo(g) == {h \in SoundVolumes : h[1] < g[1] \/ (h[1] = g[1] /\ h[2] <= g[2])}

\* C23: Discover of the filesystem-scan producer returns an error exactly
\* when the mount table or the pods directory cannot be read; otherwise it
\* returns one record for each volume directory without a soft failure, in
\* the order of the directories, and none for any other.
C23_SoftFailuresSkipped ==
    kpc = "returned" =>
        /\ kerr = "error" <=> (kubelet.mountsErr \/ kubelet.podsErr)
        /\ kerr = "error" => found = <<>>
        /\ kerr = "nil" =>
              /\ Len(found) = Cardinality(SoundVolumes)
              /\ \A g \in SoundVolumes :
                    LET r == found[Cardinality(UpTo(g))]
                    IN  /\ r.PodUID = PodUIDAt(g[1])
                        /\ r.MountPath = MountPathOf(PodUIDAt(g[1]), VolNameAt(g[2]))
                        /\ r.PVName = kubelet.pods[g[1]].vols[g[2]].volData.data.VolumeName

\* Discover has returned no error and the record of a volume directory that
\* follows one with an unreadable vol_data.json, in a pods directory that
\* also holds a pod whose CSI directory cannot be read.
C23_Witness ==
    /\ kpc = "returned"
    /\ kerr = "nil"
    /\ Len(found) = 1
    /\ \E k \in 1..Len(kubelet.pods) :
          /\ kubelet.pods[k].isDir
          /\ kubelet.pods[k].stat = "nil"
          /\ kubelet.pods[k].csiErr
    /\ \E g \in SoundVolumes :
          /\ g[2] = 2
          /\ kubelet.pods[g[1]].vols[1].isDir
          /\ kubelet.pods[g[1]].vols[1].volData.err = "read"

====
